---- MODULE Spec2Model ----
(***************************************************************************)
(* Model of the layout engine of rynx-browser (src/src/renderer.rs) as it  *)
(* is driven by App::render_tab (src/src/app.rs).                          *)
(*                                                                         *)
(* The renderer walks a parsed HTML tree depth first.  The model generates *)
(* the tree while it walks it: every step visits the next node in document *)
(* order (an element is opened, a text node is laid out, or the walk of    *)
(* the innermost open element returns).  The <html> and <body> wrappers the*)
(* parser always adds have no effect in DomRenderer::walk (the `_ => {}`   *)
(* arm), so the model's top level stands for the children of <body>.       *)
(*                                                                         *)
(* A string is a sequence of one-character strings.  The characters the    *)
(* model tells apart are those the code tells apart: white space (" " and  *)
(* "\n"), a double-width character ("W", e.g. a CJK ideograph), a          *)
(* zero-width non-space character ("z", e.g. U+200B) and ordinary          *)
(* single-width characters (everything else).                              *)
(***************************************************************************)
EXTENDS Integers, Sequences, FiniteSets, TLC

VARIABLES
    term_width,   \* the `width` argument of App::render_tab (terminal columns)
    renderer,     \* the DomRenderer
    stack,        \* the activation records of walk for the open elements
    todo,         \* what is left to run of the node being walked
    pc,           \* "walk" while render runs, "done" after it returned
    visited,      \* number of nodes walk has been called on
    input,        \* where the tree comes from: any tree, or a fixed document
    last,         \* the kind of step taken last (history)
    tab,          \* the active BrowserTab
    term_height,  \* the `terminal_height` argument of handle_key_event
    clipboard,    \* the text extract_text returned last
    key,          \* the key or the call handled last (history)
    typed,        \* the query typed since Search mode was entered, or the
                  \* address submit_request was called on (history)
    app,          \* the App: its tabs, active_tab_index, id_counter and i2p_mode
    tasks,        \* the tasks submit_request has spawned, in the order of the calls
    channel,      \* the NetworkResponses sent on tx and not yet received on rx
    history       \* BrowserTab::history of the active tab, kept beside the tab

\* the state of a layout, and the state of the tab the keys act on
rvars == <<term_width, renderer, stack, todo, pc, visited, input, last>>
netvars == <<tasks, channel>>
appvars == <<tab, term_height, clipboard, key, typed, app, tasks, channel, history>>

vars == <<term_width, renderer, stack, todo, pc, visited, input, last,
          tab, term_height, clipboard, key, typed, app, tasks, channel, history>>

-----------------------------------------------------------------------------
(* Bounds of the model *)

MaxTermWidth == 10
MaxNodes == 3
MaxTextLen == 2
MaxLines == 6

-----------------------------------------------------------------------------
(* Values *)

None == "None"

SatSub(a, b) == IF a > b THEN a - b ELSE 0

RECURSIVE Repeat(_, _)
Repeat(s, n) == IF n <= 0 THEN <<>> ELSE s \o Repeat(s, n - 1)

CharWidth(ch) ==
    CASE ch = "W" -> 2
      [] ch = "z" -> 0
      [] OTHER -> 1

RECURSIVE StrWidth(_)
StrWidth(s) == IF s = <<>> THEN 0 ELSE CharWidth(Head(s)) + StrWidth(Tail(s))

IsWhitespace(ch) == ch \in {" ", "\n"}

\* str::split_whitespace: the maximal runs of non-white-space characters
RECURSIVE SplitWs(_, _)
SplitWs(s, cur) ==
    IF s = <<>> THEN (IF cur = <<>> THEN <<>> ELSE <<cur>>)
    ELSE IF IsWhitespace(Head(s))
         THEN (IF cur = <<>> THEN <<>> ELSE <<cur>>) \o SplitWs(Tail(s), <<>>)
         ELSE SplitWs(Tail(s), Append(cur, Head(s)))

split_whitespace(s) == SplitWs(s, <<>>)

\* str::lines: the text between line feeds; a final line feed ends the last line
RECURSIVE SplitLines(_, _)
SplitLines(s, cur) ==
    IF s = <<>> THEN (IF cur = <<>> THEN <<>> ELSE <<cur>>)
    ELSE IF Head(s) = "\n"
         THEN <<cur>> \o SplitLines(Tail(s), <<>>)
         ELSE SplitLines(Tail(s), Append(cur, Head(s)))

str_lines(s) == SplitLines(s, <<>>)

DefaultStyle == [fg |-> "Reset", bold |-> FALSE, italic |-> FALSE, underlined |-> FALSE]

add_modifier(style, m) == [style EXCEPT ![m] = TRUE]

fg(style, color) == [style EXCEPT !.fg = color]

-----------------------------------------------------------------------------
(* DomRenderer *)

DomRendererNew(width) ==
    [ lines |-> <<>>,
      current_line |-> <<>>,
      current_style |-> DefaultStyle,
      links |-> <<>>,
      max_width |-> SatSub(width, 2),
      current_line_width |-> 0,
      active_link_url |-> None,
      preserve_whitespace |-> FALSE,
      list_depth |-> 0 ]

flush_line(r) ==
    IF r.current_line # <<>>
    THEN [r EXCEPT !.lines = Append(@, r.current_line),
                   !.current_line = <<>>,
                   !.current_line_width = 0]
    ELSE r

\* Line::from("") is a line without spans
add_vertical_space(r) ==
    LET f == flush_line(r) IN
    IF f.lines # <<>> /\ f.lines[Len(f.lines)] # <<>>
    THEN [f EXCEPT !.lines = Append(@, <<>>)]
    ELSE f

\* push_span_to_line without the merge: every token under a link gets a region
push_span_to_line_no_merge(r, content) ==
    LET width == StrWidth(content)
        start_x == r.current_line_width
        r1 == [r EXCEPT !.current_line =
                            Append(@, [content |-> content, style |-> r.current_style]),
                        !.current_line_width = @ + width]
    IN  IF r.active_link_url # None
        THEN [r1 EXCEPT !.links = Append(@, [url |-> r.active_link_url,
                                             line_index |-> Len(r.lines),
                                             x_start |-> start_x,
                                             x_end |-> start_x + width])]
        ELSE r1

\* push_span_to_line that measures the region in characters
push_span_to_line_counts_chars(r, content) ==
    LET start_x == r.current_line_width
        r1 == [r EXCEPT !.current_line =
                            Append(@, [content |-> content, style |-> r.current_style]),
                        !.current_line_width = @ + StrWidth(content)]
    IN  IF r.active_link_url # None
        THEN [r1 EXCEPT !.links = Append(@, [url |-> r.active_link_url,
                                             line_index |-> Len(r.lines),
                                             x_start |-> start_x,
                                             x_end |-> start_x + Len(content)])]
        ELSE r1

push_span_to_line(r, content) ==
    LET width == StrWidth(content)
        start_x == r.current_line_width
        end_x == start_x + width
        r1 == [r EXCEPT !.current_line =
                            Append(@, [content |-> content, style |-> r.current_style]),
                        !.current_line_width = @ + width]
        line_idx == Len(r.lines)
        n == Len(r.links)
    IN  IF r.active_link_url # None
        THEN IF /\ n > 0
                /\ r.links[n].line_index = line_idx
                /\ r.links[n].url = r.active_link_url
                /\ r.links[n].x_end = start_x
             THEN [r1 EXCEPT !.links[n].x_end = end_x]
             ELSE [r1 EXCEPT !.links = Append(@, [url |-> r.active_link_url,
                                                  line_index |-> line_idx,
                                                  x_start |-> start_x,
                                                  x_end |-> end_x])]
        ELSE r1

apply_indentation(r) ==
    IF r.current_line_width = 0 /\ r.list_depth > 0
    THEN push_span_to_line(r, Repeat(<<" ">>, 2 * r.list_depth))
    ELSE r

\* push_word up to the hard-wrap loop: the renderer after it, and whether the
\* loop is entered (Case 3)
push_word(r, word) ==
    IF word = <<" ">> /\ r.current_line_width = 0 /\ ~r.preserve_whitespace
    THEN [r |-> r, hard |-> FALSE]
    ELSE LET r1 == apply_indentation(r)
             word_width == StrWidth(word)
         IN  IF r1.current_line_width + word_width <= r1.max_width
             THEN [r |-> push_span_to_line(r1, word), hard |-> FALSE]
             ELSE IF word_width <= r1.max_width
             THEN [r |-> push_span_to_line(apply_indentation(flush_line(r1)), word),
                   hard |-> FALSE]
             ELSE [r |-> IF r1.current_line_width > 0 THEN flush_line(r1) ELSE r1,
                   hard |-> TRUE]

\* the number of leading characters of `remaining` that fit in available_space
RECURSIVE FitCount(_, _)
FitCount(remaining, available_space) ==
    IF remaining = <<>> THEN 0
    ELSE IF CharWidth(Head(remaining)) > available_space THEN 0
    ELSE 1 + FitCount(Tail(remaining), available_space - CharWidth(Head(remaining)))

\* one pass of the hard-wrap loop that forces a character through by dropping it
hard_wrap_pass_drops_forced(r, remaining) ==
    LET r1 == apply_indentation(r)
        available_space == SatSub(r1.max_width, r1.current_line_width)
    IN  IF available_space = 0
        THEN [r |-> flush_line(r1), remaining |-> remaining]
        ELSE LET fit == FitCount(remaining, available_space)
                 chunk == SubSeq(remaining, 1, fit)
                 rest == SubSeq(remaining, (IF fit = 0 THEN 1 ELSE fit) + 1, Len(remaining))
                 r2 == push_span_to_line(r1, chunk)
             IN  [r |-> IF rest # <<>> THEN flush_line(r2) ELSE r2,
                  remaining |-> rest]

\* one pass of the hard-wrap loop of push_word
hard_wrap_pass(r, remaining) ==
    LET r1 == apply_indentation(r)
        available_space == SatSub(r1.max_width, r1.current_line_width)
    IN  IF available_space = 0
        THEN [r |-> flush_line(r1), remaining |-> remaining]
        ELSE LET fit == FitCount(remaining, available_space)
                 split_idx == IF fit = 0 THEN 1 ELSE fit
                 chunk == SubSeq(remaining, 1, split_idx)
                 rest == SubSeq(remaining, split_idx + 1, Len(remaining))
                 r2 == push_span_to_line(r1, chunk)
             IN  [r |-> IF rest # <<>> THEN flush_line(r2) ELSE r2,
                  remaining |-> rest]

-----------------------------------------------------------------------------
(* The tree walk *)

Elem(tag, hidden, aria_hidden, href, alt) ==
    [tag |-> tag, hidden |-> hidden, aria_hidden |-> aria_hidden, href |-> href, alt |-> alt]

\* Option<&str> of the alt attribute: <<>> is None, <<s>> is Some(s)
NoAlt == <<>>

NoElem == Elem("", FALSE, None, None, NoAlt)

\* the string literal of the bullet in walk: U+00E2 U+20AC U+00A2 and a space,
\* four single-width characters
Bullet == <<"U+00E2", "U+20AC", "U+00A2", " ">>

\* the skip checks without the one for the hidden attribute
Skipped_tags_and_aria(e) ==
    \/ e.tag \in {"script", "style", "head", "meta", "link"}
    \/ e.aria_hidden = "true"

\* the checks of walk that return before anything is touched
Skipped(e) ==
    \/ e.tag \in {"script", "style", "head", "meta", "link"}
    \/ e.hidden
    \/ e.aria_hidden = "true"

\* elements the HTML parser never gives children
IsVoid(tag) == tag \in {"img", "br", "hr", "meta", "link"}

Op(name, arg) == [op |-> name, arg |-> arg]

\* the arm of the first `match tag` of walk, as the statements it runs
EnterOps(e, r) ==
    LET tag == e.tag
        old_style == r.current_style
    IN  CASE tag \in {"b", "strong"} ->
               <<Op("current_style", add_modifier(r.current_style, "bold"))>>
          [] tag \in {"i", "em"} ->
               <<Op("current_style", add_modifier(r.current_style, "italic"))>>
          [] tag = "a" ->
               <<Op("current_style", add_modifier(fg(r.current_style, "Cyan"), "underlined"))>>
               \o (IF e.href # None THEN <<Op("active_link_url", e.href)>> ELSE <<>>)
          [] tag \in {"h1", "h2", "h3"} ->
               <<Op("add_vertical_space", None),
                 Op("current_style", add_modifier(fg(r.current_style, "White"), "bold"))>>
          [] tag \in {"pre", "code"} ->
               <<Op("flush_line", None),
                 Op("preserve_whitespace", TRUE),
                 Op("current_style", fg(r.current_style, "Magenta"))>>
          [] tag \in {"ul", "ol"} ->
               <<Op("flush_line", None), Op("list_depth", r.list_depth + 1)>>
          [] tag = "li" ->
               <<Op("flush_line", None),
                 Op("push_word", Repeat(<<" ">>, 2 * SatSub(r.list_depth, 1)) \o Bullet)>>
          [] tag = "img" ->
               <<Op("current_style", fg(r.current_style, "DarkGray")),
                 Op("push_word", <<"[">> \o (IF e.alt # NoAlt THEN e.alt[1]
                                             ELSE <<"I", "M", "A", "G", "E">>) \o <<"]", " ">>),
                 Op("current_style", old_style)>>
          [] tag = "br" -> <<Op("flush_line", None)>>
          [] tag \in {"p", "main", "article", "section", "table", "aside"} ->
               <<Op("add_vertical_space", None)>>
          [] tag \in {"div", "header", "footer", "nav", "tr"} -> <<Op("flush_line", None)>>
          [] tag \in {"td", "th"} -> <<Op("push_word", <<" ", " ">>)>>
          [] tag = "hr" ->
               <<Op("add_vertical_space", None),
                 Op("push_word", Repeat(<<"-">>, r.max_width)),
                 Op("add_vertical_space", None)>>
          [] OTHER -> <<>>

\* the Node::Text arm of walk, as the statements it runs
RECURSIVE TextOps(_, _)
TextOps(preserve, parts) ==
    IF parts = <<>> THEN <<>>
    ELSE (IF preserve
          THEN <<Op("push_word", Head(parts)), Op("flush_line", None)>>
          ELSE <<Op("word", Head(parts))>>) \o TextOps(preserve, Tail(parts))

\* Restore that leaves the active link as the children set it
Restore_without_link(r, frame) ==
    LET r1 == [r EXCEPT !.current_style = frame.old_style,
                        !.preserve_whitespace = frame.old_preserve]
        tag == frame.tag
    IN  CASE tag \in {"ul", "ol"} ->
               flush_line([r1 EXCEPT !.list_depth = SatSub(r1.list_depth, 1)])
          [] tag \in {"h1", "h2", "h3", "p", "main", "article", "section", "table",
                      "aside", "pre"} -> add_vertical_space(r1)
          [] tag \in {"div", "li", "header", "footer", "nav", "tr"} -> flush_line(r1)
          [] OTHER -> r1

\* "Restore state" and the second `match tag` of walk
Restore(r, frame) ==
    LET r1 == [r EXCEPT !.current_style = frame.old_style,
                        !.active_link_url = frame.old_link,
                        !.preserve_whitespace = frame.old_preserve]
        tag == frame.tag
    IN  CASE tag \in {"ul", "ol"} ->
               flush_line([r1 EXCEPT !.list_depth = SatSub(r1.list_depth, 1)])
          [] tag \in {"h1", "h2", "h3", "p", "main", "article", "section", "table",
                      "aside", "pre"} -> add_vertical_space(r1)
          [] tag \in {"div", "li", "header", "footer", "nav", "tr"} -> flush_line(r1)
          [] OTHER -> r1

\* runs statements until none is left or the hard-wrap loop of a push_word is
\* entered; the loop's passes are steps of their own (hard_wrap)
RECURSIVE RunOps(_, _)
RunOps(r, ops) ==
    IF ops = <<>> THEN [r |-> r, todo |-> <<>>]
    ELSE LET o == Head(ops)
             rest == Tail(ops)
         IN  CASE o.op = "flush_line" -> RunOps(flush_line(r), rest)
               [] o.op = "add_vertical_space" -> RunOps(add_vertical_space(r), rest)
               [] o.op = "word" ->
                    \* the body of `for word in text.text.split_whitespace()`
                    RunOps(r, (IF r.current_line_width > 0 /\ r.current_line # <<>>
                               THEN <<Op("push_word", <<" ">>)>> ELSE <<>>)
                              \o <<Op("push_word", o.arg)>> \o rest)
               [] o.op = "push_word" ->
                    LET p == push_word(r, o.arg) IN
                    IF p.hard THEN [r |-> p.r, todo |-> <<Op("hard_wrap", o.arg)>> \o rest]
                    ELSE RunOps(p.r, rest)
               [] o.op = "hard_wrap" -> [r |-> r, todo |-> ops]
               [] OTHER -> RunOps([r EXCEPT ![o.op] = o.arg], rest)

-----------------------------------------------------------------------------
(* The documents *)

Chars == {"a", "W", "z", " ", "\n"}

RECURSIVE SeqsUpTo(_, _)
SeqsUpTo(S, n) ==
    IF n = 0 THEN {<<>>}
    ELSE LET shorter == SeqsUpTo(S, n - 1)
         IN  shorter \cup {Append(s, c) : s \in shorter, c \in S}

\* the parser never makes an empty text node
Texts == SeqsUpTo(Chars, MaxTextLen) \ {<<>>}

Tags == {"b", "i", "a", "h1", "pre", "code", "ul", "li", "img", "br", "p", "div",
         "td", "hr", "script", "span"}

Urls == {"/x", "/y"}

\* tags that also come with a hidden or an aria-hidden attribute
HideableTags == {"p", "a", "ul", "script"}

Elements ==
    {Elem(t, FALSE, None, None, NoAlt) : t \in Tags}
    \cup {Elem(t, h, ah, None, NoAlt) :
              t \in HideableTags, h \in BOOLEAN, ah \in {None, "true", "false"}}
    \cup {Elem("a", FALSE, None, u, NoAlt) : u \in Urls}
    \cup {Elem("img", FALSE, None, None, << <<"a">> >>)}

Open(e) == [kind |-> "open", elem |-> e, text |-> <<>>]
Text(t) == [kind |-> "text", elem |-> NoElem, text |-> t]
Close == [kind |-> "close", elem |-> NoElem, text |-> <<>>]

\* <h1>Hi</h1><p>See <a href="/x">this</a>.</p> as Html::parse_document gives it
ScenarioDoc ==
    << Open(Elem("html", FALSE, None, None, NoAlt)),
       Open(Elem("head", FALSE, None, None, NoAlt)),
       Open(Elem("body", FALSE, None, None, NoAlt)),
       Open(Elem("h1", FALSE, None, None, NoAlt)),
       Text(<<"H", "i">>),
       Close,
       Open(Elem("p", FALSE, None, None, NoAlt)),
       Text(<<"S", "e", "e", " ">>),
       Open(Elem("a", FALSE, None, "/x", NoAlt)),
       Text(<<"t", "h", "i", "s">>),
       Close,
       Text(<<".">>),
       Close,
       Close,
       Close >>

ScenarioWidths == {40, 42, 44}

\* the nodes walk may be called on next
Offered(kind) ==
    IF input.free
    THEN IF kind = "open" THEN {Open(e) : e \in Elements}
         ELSE IF kind = "text" THEN {Text(t) : t \in Texts}
         ELSE {Close}
    ELSE IF input.events # <<>> /\ Head(input.events).kind = kind
         THEN {Head(input.events)} ELSE {}

Consume == input' = IF input.free THEN input ELSE [input EXCEPT !.events = Tail(@)]

Budget == input.free => visited < MaxNodes

ChildAllowed == IF stack = <<>> THEN TRUE ELSE ~IsVoid(stack[Len(stack)].tag)

-----------------------------------------------------------------------------
(* The specification *)

\* no App is there: a layout or a tab is looked at on its own
NoApp == [tabs |-> <<>>, active_tab_index |-> 0, id_counter |-> 0, i2p_mode |-> FALSE]

\* no key has been handled: the layout is looked at on its own
NoKeysYet ==
    /\ tab = None
    /\ term_height = 0
    /\ clipboard = <<>>
    /\ key = [code |-> "None", ch |-> ""]
    /\ typed = <<>>
    /\ app = NoApp
    /\ tasks = <<>>
    /\ channel = <<>>
    /\ history = <<>>

\* App::render_tab up to the call of render
render_tab_content_width(width) == SatSub(width, 2)

Init ==
    /\ \/ input = [free |-> TRUE, events |-> <<>>] /\ term_width \in 0..MaxTermWidth
       \/ input = [free |-> FALSE, events |-> ScenarioDoc] /\ term_width \in ScenarioWidths
    /\ renderer = DomRendererNew(render_tab_content_width(term_width))
    /\ stack = <<>>
    /\ todo = <<>>
    /\ pc = "walk"
    /\ visited = 0
    /\ last = "init"
    /\ NoKeysYet

\* walk on an element, up to its children: the renderer, what is left to run
\* (a hard-wrap loop and what follows it) and the activation record, if any
walk_element(r, e) ==
    IF Skipped(e)
    THEN [r |-> r, todo |-> <<>>, frames |-> <<>>]
    ELSE LET res == RunOps(r, EnterOps(e, r))
         IN  [r |-> res.r,
              todo |-> res.todo,
              frames |-> << [tag |-> e.tag,
                             old_style |-> r.current_style,
                             old_link |-> r.active_link_url,
                             old_preserve |-> r.preserve_whitespace,
                             entry_depth |-> r.list_depth] >>]

walk_Element ==
    /\ pc = "walk" /\ todo = <<>> /\ ChildAllowed /\ Budget
    /\ \E ev \in Offered("open") :
         LET res == walk_element(renderer, ev.elem)
         IN  /\ renderer' = res.r
             /\ todo' = res.todo
             /\ stack' = stack \o res.frames
             /\ last' = IF res.frames = <<>> THEN "skip" ELSE "element"
    /\ visited' = visited + 1
    /\ Consume
    /\ UNCHANGED <<term_width, pc>>
    /\ UNCHANGED appvars

\* walk on a text node
walk_Text ==
    /\ pc = "walk" /\ todo = <<>> /\ ChildAllowed /\ Budget
    /\ \E ev \in Offered("text") :
         LET parts == IF renderer.preserve_whitespace THEN str_lines(ev.text)
                      ELSE split_whitespace(ev.text)
             res == RunOps(renderer, TextOps(renderer.preserve_whitespace, parts))
         IN  /\ renderer' = res.r
             /\ todo' = res.todo
    /\ last' = "text"
    /\ visited' = visited + 1
    /\ Consume
    /\ UNCHANGED <<term_width, stack, pc>>
    /\ UNCHANGED appvars

\* one pass of the hard-wrap loop, and what follows the loop when it ends
hard_wrap ==
    /\ pc = "walk" /\ todo # <<>>
    /\ Len(renderer.lines) < MaxLines
    /\ LET pass == hard_wrap_pass(renderer, Head(todo).arg)
           res == RunOps(pass.r, Tail(todo))
       IN  IF pass.remaining # <<>>
           THEN /\ renderer' = pass.r
                /\ todo' = <<Op("hard_wrap", pass.remaining)>> \o Tail(todo)
           ELSE /\ renderer' = res.r
                /\ todo' = res.todo
    /\ last' = "hard_wrap"
    /\ UNCHANGED <<term_width, stack, pc, visited, input>>
    /\ UNCHANGED appvars

\* the children of the innermost open element are done: walk returns
walk_return ==
    /\ pc = "walk" /\ todo = <<>> /\ stack # <<>>
    /\ Offered("close") # {}
    /\ renderer' = Restore(renderer, stack[Len(stack)])
    /\ stack' = SubSeq(stack, 1, Len(stack) - 1)
    /\ last' = "return"
    /\ Consume
    /\ UNCHANGED <<term_width, todo, pc, visited>>
    /\ UNCHANGED appvars

\* the loop of render is over
render_end ==
    /\ pc = "walk" /\ todo = <<>> /\ stack = <<>>
    /\ ~input.free => input.events = <<>>
    /\ renderer' = flush_line(renderer)
    /\ pc' = "done"
    /\ last' = "end"
    /\ UNCHANGED <<term_width, stack, todo, visited, input>>
    /\ UNCHANGED appvars

Next == walk_Element \/ walk_Text \/ hard_wrap \/ walk_return \/ render_end

Spec == Init /\ [][Next]_vars

-----------------------------------------------------------------------------
(* Text of the buffer and selections (src/src/models.rs)                    *)
(*                                                                          *)
(* A line of the buffer is held as the string Line::to_string gives for it. *)
(* Rust strings are UTF-8: char indices are turned into byte offsets and a  *)
(* byte range is sliced, so the model keeps the byte length of a character. *)

\* an Option<T>: <<>> is None, <<v>> is Some(v)
Some(v) == <<v>>

unwrap_or(opt, default) == IF opt = <<>> THEN default ELSE opt[1]

\* char::len_utf8 ("U+1F980" is the crab of the selection test)
len_utf8(ch) ==
    CASE ch \in {"W", "z"} -> 3
      [] ch = "U+1F980" -> 4
      [] OTHER -> 1

\* str::len, in bytes
RECURSIVE str_len(_)
str_len(s) == IF s = <<>> THEN 0 ELSE len_utf8(Head(s)) + str_len(Tail(s))

\* s.char_indices().nth(n).map(|(idx, _)| idx)
char_index_nth(s, n) == IF n < Len(s) THEN Some(str_len(SubSeq(s, 1, n))) ELSE <<>>

IsCharBoundary(s, b) == \E n \in 0..Len(s) : str_len(SubSeq(s, 1, n)) = b

\* what a call that panics returns
Panic == <<"panic">>

\* &s[byte_start..byte_end]
str_slice(s, byte_start, byte_end) ==
    IF byte_start > byte_end \/ ~IsCharBoundary(s, byte_start) \/ ~IsCharBoundary(s, byte_end)
    THEN Panic
    ELSE LET before == Cardinality({n \in 1..Len(s) : str_len(SubSeq(s, 1, n - 1)) < byte_start})
             upto == Cardinality({n \in 1..Len(s) : str_len(SubSeq(s, 1, n)) <= byte_end})
         IN  SubSeq(s, before + 1, upto)

Selection(start_line, start_char, end_line, end_char) ==
    [start_line |-> start_line, start_char |-> start_char,
     end_line |-> end_line, end_char |-> end_char]

\* the endpoints of a selection ordered by the line alone
normalize_by_line(selection) ==
    IF selection.start_line <= selection.end_line
    THEN selection
    ELSE Selection(selection.end_line, selection.end_char,
                   selection.start_line, selection.start_char)

\* Selection::extract_text: (s_line, s_char, e_line, e_char)
normalize(selection) ==
    IF \/ selection.start_line < selection.end_line
       \/ /\ selection.start_line = selection.end_line
          /\ selection.start_char <= selection.end_char
    THEN selection
    ELSE Selection(selection.end_line, selection.end_char,
                   selection.start_line, selection.start_char)

\* Selection::extract_text: what the iterations i, i+1, .. e_line push
RECURSIVE extract_loop(_, _, _)
extract_loop(i, n, rendered_content) ==
    IF i > n.end_line THEN <<>>
    ELSE LET rest == extract_loop(i + 1, n, rendered_content) IN
         IF i < Len(rendered_content)
         THEN LET line_str == rendered_content[i + 1]
                  start == IF i = n.start_line THEN n.start_char ELSE 0
                  end == IF i = n.end_line THEN n.end_char ELSE Len(line_str)
                  byte_start == unwrap_or(char_index_nth(line_str, start), 0)
                  byte_end == unwrap_or(char_index_nth(line_str, end), str_len(line_str))
                  piece == str_slice(line_str, byte_start, byte_end)
              IN  IF piece = Panic \/ rest = Panic THEN Panic
                  ELSE piece \o (IF i < n.end_line THEN <<"\n">> ELSE <<>>) \o rest
         ELSE rest

extract_text(selection, rendered_content) ==
    extract_loop(normalize(selection).start_line, normalize(selection), rendered_content)

-----------------------------------------------------------------------------
(* The tab: search and navigation (src/src/app.rs)                          *)

SearchMatch(line_index, start_char, end_char) ==
    [line_index |-> line_index, start_char |-> start_char, end_char |-> end_char]

SearchState(query, matches, current_match_index) ==
    [query |-> query, matches |-> matches, current_match_index |-> current_match_index]

LinkRegion(url, line_index, x_start, x_end) ==
    [url |-> url, line_index |-> line_index, x_start |-> x_start, x_end |-> x_end]

\* what a layout leaves in a tab: the lines (as text) and the link registry
Page(rendered_content, link_regions) ==
    [rendered_content |-> rendered_content, link_regions |-> link_regions]

\* the address of the first tab and of a tab opened with 'n'
StartUrl ==
    <<"h", "t", "t", "p", "s", ":", "/", "/", "w", "w", "w", ".", "r", "u", "s", "t", "-", "l", "a", "n", "g", ".", "o", "r", "g">>

\* BrowserTab::new, with the layout of the start page
BrowserTabNew(page) ==
    [rendered_content |-> page.rendered_content,
     link_regions |-> page.link_regions,
     scroll |-> 0,
     selected_link_index |-> 0,
     input_mode |-> "Normal",
     status_message |-> "Ready",
     cursor_line |-> 0,
     cursor_char |-> 0,
     selection |-> <<>>,
     search_state |-> <<>>,
     id |-> 0,
     url_input |-> StartUrl,
     html_source |-> <<>>,
     is_source_view |-> FALSE]

\* perform_search: the query occurs in the line at char_idx
found_at(line_chars, query_chars, char_idx) ==
    \A i \in 0..(Len(query_chars) - 1) :
        /\ char_idx + i < Len(line_chars)
        /\ line_chars[char_idx + i + 1] = query_chars[i + 1]

\* where the scan of a line goes on after a match, were matches to overlap
advance_by_one(char_idx, query_chars) == char_idx + 1

\* perform_search: where the scan of a line goes on after a match
advance_after_match(char_idx, query_chars) == char_idx + Len(query_chars)

\* perform_search: the while loop over one line, from char_idx on
RECURSIVE search_line(_, _, _, _)
search_line(line_idx, line_chars, query_chars, char_idx) ==
    IF char_idx <= SatSub(Len(line_chars), Len(query_chars))
    THEN IF found_at(line_chars, query_chars, char_idx)
         THEN <<SearchMatch(line_idx, char_idx, char_idx + Len(query_chars))>>
              \o search_line(line_idx, line_chars, query_chars,
                             advance_after_match(char_idx, query_chars))
         ELSE search_line(line_idx, line_chars, query_chars, char_idx + 1)
    ELSE <<>>

\* perform_search: the for loop over the lines, from line_idx on
RECURSIVE search_lines(_, _, _)
search_lines(rendered_content, query_chars, line_idx) ==
    IF line_idx >= Len(rendered_content) THEN <<>>
    ELSE search_line(line_idx, rendered_content[line_idx + 1], query_chars, 0)
         \o search_lines(rendered_content, query_chars, line_idx + 1)

perform_search(t, query) ==
    IF query = <<>> THEN [t EXCEPT !.search_state = <<>>]
    ELSE LET matches == search_lines(t.rendered_content, query, 0)
         IN  [t EXCEPT !.search_state =
                  IF matches = <<>> THEN <<>> ELSE Some(SearchState(query, matches, 0))]

\* a step that keeps the current match where it is
stay_on_match(t) == t

next_search_match(t) ==
    IF t.search_state # <<>>
    THEN IF t.search_state[1].matches # <<>>
         THEN [t EXCEPT !.search_state[1].current_match_index =
                            (@ + 1) % Len(t.search_state[1].matches)]
         ELSE t
    ELSE t

previous_search_match(t) ==
    IF t.search_state # <<>>
    THEN IF t.search_state[1].matches # <<>>
         THEN [t EXCEPT !.search_state[1].current_match_index =
                            IF @ = 0 THEN Len(t.search_state[1].matches) - 1 ELSE @ - 1]
         ELSE t
    ELSE t

clear_search(t) ==
    [t EXCEPT !.search_state = <<>>, !.input_mode = "Normal", !.status_message = "Ready"]

-----------------------------------------------------------------------------
(* App::render_tab: the layout of a tab's html_source (src/src/app.rs)      *)

\* Line::to_string: the contents of the spans of a line, joined
RECURSIVE LineText(_)
LineText(line) == IF line = <<>> THEN <<>> ELSE Head(line).content \o LineText(Tail(line))

\* the hard-wrap loop of push_word, run to its end: Some(renderer), or None
\* when the loop never ends (two passes in a row find no room on the line).
\* A pass is computed once: it is bound as the element of a one-element set.
RECURSIVE hard_wrap_loop(_, _, _)
hard_wrap_loop(r, remaining, stalled) ==
    CHOOSE out \in
        { IF pass.remaining = <<>> THEN Some(pass.r)
          ELSE IF Len(pass.remaining) = Len(remaining)
               THEN IF stalled THEN <<>> ELSE hard_wrap_loop(pass.r, remaining, TRUE)
               ELSE hard_wrap_loop(pass.r, pass.remaining, FALSE)
          : pass \in {hard_wrap_pass(r, remaining)} } : TRUE

\* the statements of an arm of walk run to their end, hard-wrap loops included
RECURSIVE run_to_end(_, _)
run_to_end(r, ops) ==
    CHOOSE out \in
        { IF res.todo = <<>> THEN Some(res.r)
          ELSE CHOOSE after \in
                   { IF looped = <<>> THEN <<>> ELSE run_to_end(looped[1], Tail(res.todo))
                     : looped \in {hard_wrap_loop(res.r, Head(res.todo).arg, FALSE)} } : TRUE
          : res \in {RunOps(r, ops)} } : TRUE

\* walk on one node: Some of the renderer and the activation records after
\* it, or None when a hard-wrap loop never ends
walk_node(r, ev, frames) ==
    CASE ev.kind = "open" ->
           CHOOSE out \in
               { CHOOSE after \in
                     { IF ran = <<>> THEN <<>>
                       ELSE Some([r |-> ran[1], frames |-> frames \o entered.frames])
                       : ran \in {run_to_end(entered.r, entered.todo)} } : TRUE
                 : entered \in {walk_element(r, ev.elem)} } : TRUE
      [] ev.kind = "text" ->
           LET parts == IF r.preserve_whitespace THEN str_lines(ev.text)
                        ELSE split_whitespace(ev.text)
           IN  CHOOSE out \in
                   { IF ran = <<>> THEN <<>> ELSE Some([r |-> ran[1], frames |-> frames])
                     : ran \in {run_to_end(r, TextOps(r.preserve_whitespace, parts))} } : TRUE
      [] OTHER ->
           Some([r |-> Restore(r, frames[Len(frames)]),
                 frames |-> SubSeq(frames, 1, Len(frames) - 1)])

\* walk over the nodes of a tree in document order; frames holds the
\* activation records of the open elements
RECURSIVE walk(_, _, _)
walk(r, events, frames) ==
    IF events = <<>> THEN Some(r)
    ELSE CHOOSE out \in
             { IF node = <<>> THEN <<>> ELSE walk(node[1].r, rest, node[1].frames)
               : node \in {walk_node(r, Head(events), frames)}, rest \in {Tail(events)} } : TRUE

\* DomRenderer::new(width) and render: Some(renderer), or None when render
\* never returns
render(document, width) ==
    CHOOSE out \in
        { IF walked = <<>> THEN <<>> ELSE Some(flush_line(walked[1]))
          : walked \in {walk(DomRendererNew(width), document, <<>>)} } : TRUE

\* the html_source of BrowserTab::new
NoHtml == <<>>

\* three links, one to a line of the source
LinksHtml ==
    <<"<", "a", " ", "h", "r", "e", "f", "=", "/", "x", ">", "a", "a", "<", "/", "a", ">",
      "\n", "<", "a", " ", "h", "r", "e", "f", "=", "/", "y", ">", "a", "W", "<", "/", "a",
      ">", "\n", "<", "a", " ", "h", "r", "e", "f", "=", "/", "x", ">", "a", "<", "/", "a", ">">>

\* a paragraph and a link
ParagraphHtml ==
    <<"<", "p", ">", "W", "<", "/", "p", ">", "<", "a", " ", "h", "r", "e", "f", "=", "/",
      "y", ">", "a", "a", "a", "<", "/", "a", ">">>

\* the messages of the Error responses the model delivers
ErrorMessages == {"x"}

\* the characters of a message
MessageChars(msg) ==
    CASE msg = "x" -> <<"x">>
      [] msg = "Page too large" ->
            <<"P", "a", "g", "e", " ", "t", "o", "o", " ", "l", "a", "r", "g", "e">>

\* handle_network_event, NetworkResponse::Error: the page made of the message
ErrorHtml(msg) ==
    <<"<", "h", "1", ">", "E", "r", "r", "o", "r", "<", "/", "h", "1", ">", "<", "h", "r",
      ">", "<", "p", " ", "s", "t", "y", "l", "e", "=", "'", "c", "o", "l", "o", "r", ":",
      "r", "e", "d", "'", ">">>
    \o MessageChars(msg) \o <<"<", "/", "p", ">">>

PlainElem(tag) == Elem(tag, FALSE, None, None, NoAlt)

\* Html::parse_document on the pages of the model: the nodes in document order
\* (an element walk skips is given without its children)
parse_document(html_source) ==
    LET Body(nodes) == <<Open(PlainElem("html")), Open(PlainElem("head")),
                         Open(PlainElem("body"))>> \o nodes \o <<Close, Close>>
    IN  CASE html_source = NoHtml -> Body(<<>>)
          [] html_source = LinksHtml ->
               Body(<< Open(Elem("a", FALSE, None, "/x", NoAlt)), Text(<<"a", "a">>), Close,
                       Text(<<"\n">>),
                       Open(Elem("a", FALSE, None, "/y", NoAlt)), Text(<<"a", "W">>), Close,
                       Text(<<"\n">>),
                       Open(Elem("a", FALSE, None, "/x", NoAlt)), Text(<<"a">>), Close >>)
          [] html_source = ParagraphHtml ->
               Body(<< Open(PlainElem("p")), Text(<<"W">>), Close,
                       Open(Elem("a", FALSE, None, "/y", NoAlt)), Text(<<"a", "a", "a">>),
                       Close >>)
          [] OTHER ->
               LET msg == CHOOSE m \in ErrorMessages \cup {"Page too large"} :
                                  html_source = ErrorHtml(m)
               IN  Body(<< Open(PlainElem("h1")), Text(<<"E", "r", "r", "o", "r">>), Close,
                           Open(PlainElem("hr")), Close,
                           Open(PlainElem("p")), Text(MessageChars(msg)), Close >>)

\* the pages the network delivers
Pages == {NoHtml, LinksHtml, ParagraphHtml}

\* the terminal widths of the model: at 4 columns no word fits a line
TermWidths == {4, 6, 12}

\* the process when render never returns: no event is handled any more
Hung(t) == [t EXCEPT !.input_mode = "Hung"]

RECURSIVE LineTexts(_)
LineTexts(lines) ==
    IF lines = <<>> THEN <<>> ELSE <<LineText(Head(lines))>> \o LineTexts(Tail(lines))

\* render_tab with a renderer that is kept from the layout before: the new
\* lines and links come after the ones the tab holds
render_tab_reuses_renderer(t, width) ==
    IF t.is_source_view
    THEN [t EXCEPT !.rendered_content = str_lines(t.html_source),
                   !.link_regions = <<>>]
    ELSE CHOOSE out \in
             { IF rendered = <<>> THEN Hung(t)
               ELSE [t EXCEPT !.rendered_content = @ \o LineTexts(rendered[1].lines),
                              !.link_regions = @ \o rendered[1].links]
               : rendered \in {render(parse_document(t.html_source),
                                       render_tab_content_width(width))} } : TRUE

\* App::render_tab on a tab (the layout is computed once: it is bound as the
\* element of a one-element set)
render_tab(t, width) ==
    IF t.is_source_view
    THEN [t EXCEPT !.rendered_content = str_lines(t.html_source),
                   !.link_regions = <<>>]
    ELSE CHOOSE out \in
             { IF rendered = <<>> THEN Hung(t)
               ELSE [t EXCEPT !.rendered_content = LineTexts(rendered[1].lines),
                              !.link_regions = rendered[1].links]
               : rendered \in {render(parse_document(t.html_source),
                                       render_tab_content_width(width))} } : TRUE

-----------------------------------------------------------------------------
(* App::submit_request: the address that is requested (src/src/app.rs)      *)

starts_with(s, prefix) == Len(prefix) <= Len(s) /\ SubSeq(s, 1, Len(prefix)) = prefix

ends_with(s, suffix) ==
    Len(suffix) <= Len(s) /\ SubSeq(s, Len(s) - Len(suffix) + 1, Len(s)) = suffix

contains(s, pattern) ==
    \E i \in 0..(Len(s) - Len(pattern)) : SubSeq(s, i + 1, i + Len(pattern)) = pattern

\* str::replace: every occurrence of `from`, left to right
RECURSIVE replace(_, _, _)
replace(s, from, to) ==
    IF s = <<>> THEN <<>>
    ELSE IF starts_with(s, from)
         THEN to \o replace(SubSeq(s, Len(from) + 1, Len(s)), from, to)
         ELSE <<Head(s)>> \o replace(Tail(s), from, to)

MARGINALIA_SEARCH_URL == 
    <<"h", "t", "t", "p", "s", ":", "/", "/", "s", "e", "a", "r", "c", "h", ".", "m", "a", "r", "g", "i", "n", "a", "l", "i", "a", ".", "n", "u", "/", "s", "e", "a", "r", "c", "h", "?">>

\* url::form_urlencoded::byte_serialize on the characters of the model: a
\* space becomes '+', ASCII letters, digits and * - . _ stay, the rest is
\* percent-encoded
byte_serialize(ch) ==
    CASE ch = " " -> <<"+">>
      [] ch = "/" -> <<"%", "2", "F">>
      [] ch = ":" -> <<"%", "3", "A">>
      [] OTHER -> <<ch>>

\* form_urlencoded with a space percent-encoded
RECURSIVE form_urlencoded_percent(_)
form_urlencoded_percent(s) ==
    IF s = <<>> THEN <<>>
    ELSE (IF Head(s) = " " THEN <<"%", "2", "0">> ELSE byte_serialize(Head(s)))
         \o form_urlencoded_percent(Tail(s))

RECURSIVE form_urlencoded(_)
form_urlencoded(s) ==
    IF s = <<>> THEN <<>> ELSE byte_serialize(Head(s)) \o form_urlencoded(Tail(s))

\* Serializer::new(String::new()).append_pair("query", target_url).finish()
safe_query(target_url) == <<"q", "u", "e", "r", "y", "=">> \o form_urlencoded(target_url)

\* submit_request, "URL Normalization"
normalize_url(target_url) ==
    IF ~starts_with(target_url, <<"h", "t", "t", "p", ":", "/", "/">>)
       /\ ~starts_with(target_url, <<"h", "t", "t", "p", "s", ":", "/", "/">>)
    THEN IF contains(target_url, <<".">>) /\ ~contains(target_url, <<" ">>)
         THEN IF ends_with(target_url, <<".", "i", "2", "p">>)
              THEN <<"h", "t", "t", "p", ":", "/", "/">> \o target_url
              ELSE <<"h", "t", "t", "p", "s", ":", "/", "/">> \o target_url
         ELSE MARGINALIA_SEARCH_URL \o safe_query(target_url)
    ELSE target_url

\* Url::parse and host_str on an address that starts with http://: Some(host),
\* or None when the address does not parse (no host, or a space in the host)
host_str(target_url) ==
    LET rest == SubSeq(target_url, 8, Len(target_url))
        stops == {i \in 1..Len(rest) : rest[i] \in {"/", "?", "#", ":"}}
        host == IF stops = {} THEN rest
                ELSE SubSeq(rest, 1, (CHOOSE i \in stops : \A j \in stops : i <= j) - 1)
    IN  IF host = <<>> \/ contains(host, <<" ">>) THEN <<>> ELSE Some(host)

is_local(host) ==
    \/ host = <<"l", "o", "c", "a", "l", "h", "o", "s", "t">>
    \/ host = <<"1", "2", "7", ".", "0", ".", "0", ".", "1">>
    \/ starts_with(host, <<"1", "2", "7", ".">>)

\* submit_request, "Enforce HTTPS for clearweb requests"
enforce_https(target_url, use_i2p) ==
    IF ~use_i2p /\ starts_with(target_url, <<"h", "t", "t", "p", ":", "/", "/">>)
       /\ ~contains(target_url, <<".", "i", "2", "p">>)
    THEN IF host_str(target_url) # <<>>
         THEN IF ~is_local(host_str(target_url)[1])
              THEN replace(target_url, <<"h", "t", "t", "p", ":", "/", "/">>,
                           <<"h", "t", "t", "p", "s", ":", "/", "/">>)
              ELSE target_url
         ELSE target_url
    ELSE target_url

\* submit_request up to the request: the address is written back to the tab
submit_request(t, use_i2p) ==
    [t EXCEPT !.url_input = enforce_https(normalize_url(t.url_input), use_i2p)]

\* the characters of the address of a link
UrlChars(url) == CASE url = "/x" -> <<"/", "x">> [] url = "/y" -> <<"/", "y">>

\* Url::parse(target).is_ok(): the target has a scheme
is_absolute(target) ==
    starts_with(target, <<"h", "t", "t", "p", ":", "/", "/">>)
    \/ starts_with(target, <<"h", "t", "t", "p", "s", ":", "/", "/">>)

\* the scheme and the authority of an address: what precedes the path
origin(url) ==
    LET slashes == {i \in 1..Len(url) : url[i] = "/" /\ i > 1 /\ url[i - 1] # "/"
                                        /\ (i = Len(url) \/ url[i + 1] # "/")}
    IN  IF slashes = {} THEN url
        ELSE SubSeq(url, 1, (CHOOSE i \in slashes : \A j \in slashes : i <= j) - 1)

\* network::resolve_url (src/src/network.rs) for a target that is absolute or
\* starts with a slash
resolve_url(base, target) ==
    IF is_absolute(target) THEN target
    ELSE IF base = <<>> \/ starts_with(base, <<"a", "b", "o", "u", "t", ":">>)
         THEN target
         ELSE IF is_absolute(base) THEN origin(base) \o target ELSE target

-----------------------------------------------------------------------------
(* Keys (src/src/event_handler.rs) *)

UI_HEIGHT_OFFSET == 8

Key(code, ch) == [code |-> code, ch |-> ch]
Char(c) == Key("Char", c)

\* a scroll that puts a line below the viewport on its first row
autoscroll_to_first_row(t, line_index, viewport_height) ==
    IF line_index < t.scroll \/ line_index >= t.scroll + viewport_height
    THEN [t EXCEPT !.scroll = line_index]
    ELSE t

\* the scroll that brings line_index into a viewport of viewport_height lines
autoscroll(t, line_index, viewport_height) ==
    IF line_index < t.scroll THEN [t EXCEPT !.scroll = line_index]
    ELSE IF line_index >= t.scroll + viewport_height
         THEN [t EXCEPT !.scroll = line_index - viewport_height + 1]
         ELSE t

\* handle_normal_mode, '>' and '<', after the step to the match
scroll_to_current_match(t, terminal_height) ==
    IF t.search_state # <<>>
    THEN LET search_state == t.search_state[1] IN
         IF search_state.current_match_index < Len(search_state.matches)
         THEN autoscroll(t, search_state.matches[search_state.current_match_index + 1].line_index,
                         SatSub(terminal_height, UI_HEIGHT_OFFSET))
         ELSE t
    ELSE t

\* Tab on a tab that never wraps to the first link
tab_index_saturating(t) ==
    IF t.selected_link_index + 1 < Len(t.link_regions)
    THEN t.selected_link_index + 1 ELSE t.selected_link_index

\* handle_normal_mode, Tab: the link selected next
tab_index(t) == (t.selected_link_index + 1) % Len(t.link_regions)

\* handle_normal_mode, BackTab: the link selected next
backtab_index(t) ==
    IF t.selected_link_index > 0 THEN t.selected_link_index - 1 ELSE Len(t.link_regions) - 1

\* the process after a panic: no key is handled any more
Panicked(t) == [t EXCEPT !.input_mode = "Panicked"]

\* handle_normal_mode, Tab and BackTab (indexing past the registry panics)
link_navigation(t, k, terminal_height) ==
    IF t.link_regions # <<>>
    THEN LET index == IF k.code = "Tab" THEN tab_index(t) ELSE backtab_index(t)
             moved == [t EXCEPT !.selected_link_index = index]
         IN  IF index < Len(t.link_regions)
             THEN autoscroll(moved, t.link_regions[index + 1].line_index,
                             SatSub(terminal_height, UI_HEIGHT_OFFSET))
             ELSE Panicked(moved)
    ELSE t

\* BrowserTab::enter_visual_mode that leaves the selection empty
enter_visual_mode_no_selection(t) ==
    [t EXCEPT !.input_mode = "Visual",
              !.status_message = "VISUAL MODE - Move cursor to select, 'y' to copy"]

\* BrowserTab::enter_visual_mode (src/src/app.rs)
enter_visual_mode(t) ==
    [t EXCEPT !.input_mode = "Visual",
              !.status_message = "VISUAL MODE - Move cursor to select, 'y' to copy",
              !.selection = Some(Selection(t.cursor_line, t.cursor_char,
                                           t.cursor_line, t.cursor_char))]

\* handle_normal_mode, 'V': the source view is toggled and the tab laid out anew
toggle_source_view(t, terminal_width) ==
    render_tab([t EXCEPT !.is_source_view = ~@,
                         !.status_message = IF t.is_source_view THEN "Viewing Rendered"
                                            ELSE "Viewing Source"],
               terminal_width)

\* handle_normal_mode, 'h', 'l', 'k' and 'j': the cursor moves
normal_cursor(t, k, terminal_height) ==
    CASE k.ch = "h" -> [t EXCEPT !.cursor_char = SatSub(@, 1)]
      [] k.ch = "l" ->
            LET line_len == IF t.cursor_line < Len(t.rendered_content)
                            THEN StrWidth(t.rendered_content[t.cursor_line + 1]) ELSE 0
            IN  [t EXCEPT !.cursor_char = IF @ + 1 <= line_len THEN @ + 1 ELSE line_len]
      [] k.ch = "k" ->
            LET cursor_line == SatSub(t.cursor_line, 1)
            IN  [t EXCEPT !.cursor_line = cursor_line,
                          !.scroll = IF cursor_line < @ THEN cursor_line ELSE @]
      [] OTHER ->
            LET max_lines == SatSub(Len(t.rendered_content), 1)
                cursor_line == IF t.cursor_line + 1 <= max_lines THEN t.cursor_line + 1
                               ELSE max_lines
                viewport_height == SatSub(terminal_height, UI_HEIGHT_OFFSET)
            IN  [t EXCEPT !.cursor_line = cursor_line,
                          !.scroll = IF cursor_line >= @ + viewport_height
                                     THEN cursor_line - viewport_height + 1 ELSE @]

\* handle_normal_mode, for the keys the model presses
handle_normal_mode(t, k, terminal_width, terminal_height, i2p_mode) ==
    CASE k = Char("v") -> enter_visual_mode(t)
      [] k = Char("e") ->
            [t EXCEPT !.input_mode = "Editing",
                      !.status_message = "EDIT MODE - Type URL and press Enter"]
      [] k = Char("V") -> toggle_source_view(t, terminal_width)
      [] k \in {Char("h"), Char("l"), Char("k"), Char("j")} ->
            normal_cursor(t, k, terminal_height)
      [] k = Char("/") ->
            [t EXCEPT !.input_mode = "Search",
                      !.search_state = Some(SearchState(<<>>, <<>>, 0)),
                      !.status_message = "SEARCH MODE - Type query and press Enter"]
      [] k = Char(">") -> scroll_to_current_match(next_search_match(t), terminal_height)
      [] k = Char("<") -> scroll_to_current_match(previous_search_match(t), terminal_height)
      [] k.code = "Down" -> [t EXCEPT !.scroll = @ + 1]
      [] k.code = "Up" -> [t EXCEPT !.scroll = SatSub(@, 1)]
      [] k.code \in {"Tab", "BackTab"} -> link_navigation(t, k, terminal_height)
      [] k.code = "Enter" ->
            IF t.selected_link_index < Len(t.link_regions)
            THEN [submit_request([t EXCEPT !.url_input =
                                      resolve_url(t.url_input,
                                                  UrlChars(t.link_regions[
                                                      t.selected_link_index + 1].url))],
                                 i2p_mode)
                  EXCEPT !.selected_link_index = 0]
            ELSE t
      [] OTHER -> t

handle_search_mode(t, k) ==
    CASE k.code = "Esc" -> clear_search(t)
      [] k.code = "Enter" -> [t EXCEPT !.input_mode = "Normal"]
      [] k.code = "Char" ->
            IF t.search_state # <<>>
            THEN perform_search(t, Append(t.search_state[1].query, k.ch))
            ELSE t
      [] k.code = "Backspace" ->
            IF t.search_state # <<>>
            THEN LET query == t.search_state[1].query
                     popped == SubSeq(query, 1, Len(query) - 1)
                 IN  IF popped = <<>>
                     THEN [t EXCEPT !.search_state = <<>>,
                                    !.input_mode = "Normal",
                                    !.status_message = "Ready"]
                     ELSE perform_search(t, popped)
            ELSE t
      [] OTHER -> t

handle_editing_mode(t, k, i2p_mode) ==
    CASE k.code = "Enter" -> [submit_request(t, i2p_mode) EXCEPT !.input_mode = "Normal"]
      [] k.code = "Char" -> [t EXCEPT !.url_input = Append(@, k.ch)]
      [] k.code = "Backspace" -> [t EXCEPT !.url_input = SubSeq(@, 1, Len(@) - 1)]
      [] k.code = "Esc" -> [t EXCEPT !.input_mode = "Normal", !.status_message = "Ready"]
      [] OTHER -> t

\* handle_visual_mode, 'h', 'j', 'k' and 'l': the cursor after the move, and the
\* line of rendered_content the key indexes (None for 'h', which indexes none)
visual_cursor(t, k) ==
    LET max_lines == SatSub(Len(t.rendered_content), 1)
        cursor_line == CASE k.ch = "j" -> IF t.cursor_line + 1 <= max_lines
                                          THEN t.cursor_line + 1 ELSE max_lines
                         [] k.ch = "k" -> SatSub(t.cursor_line, 1)
                         [] OTHER -> t.cursor_line
    IN  [cursor_line |-> cursor_line,
         indexed |-> IF k.ch = "h" THEN <<>> ELSE Some(cursor_line)]

\* handle_visual_mode, 'h', 'j', 'k' and 'l' (indexing past the buffer panics)
visual_move(t, k) ==
    LET moved == visual_cursor(t, k) IN
    IF moved.indexed # <<>> /\ moved.indexed[1] >= Len(t.rendered_content)
    THEN Panicked(t)
    ELSE LET line_len == IF moved.indexed = <<>> THEN 0
                         ELSE StrWidth(t.rendered_content[moved.cursor_line + 1])
             cursor_char == CASE k.ch = "h" -> SatSub(t.cursor_char, 1)
                              [] k.ch = "l" -> IF t.cursor_char + 1 <= line_len
                                               THEN t.cursor_char + 1 ELSE line_len
                              [] OTHER -> IF t.cursor_char <= line_len
                                          THEN t.cursor_char ELSE line_len
         IN  [t EXCEPT !.cursor_line = moved.cursor_line,
                       !.cursor_char = cursor_char,
                       !.selection =
                           IF @ = <<>> THEN @
                           ELSE IF k.ch \in {"j", "k"}
                                THEN Some([@[1] EXCEPT !.end_line = moved.cursor_line,
                                                       !.end_char = cursor_char])
                                ELSE Some([@[1] EXCEPT !.end_char = cursor_char])]

\* BrowserTab::extract_text_from_selection (src/src/app.rs)
extract_text_from_selection(t) ==
    IF t.selection = <<>> THEN <<>> ELSE extract_text(t.selection[1], t.rendered_content)

\* handle_visual_mode, 'y' (a slice off a character boundary panics)
yank(t) ==
    LET text_to_copy == extract_text_from_selection(t) IN
    IF text_to_copy = Panic THEN Panicked(t)
    ELSE IF text_to_copy # <<>>
         THEN [t EXCEPT !.status_message = "Text yanked to clipboard!",
                        !.input_mode = "Normal",
                        !.selection = <<>>]
         ELSE [t EXCEPT !.input_mode = "Normal", !.selection = <<>>]

handle_visual_mode(t, k) ==
    CASE k \in {Char("h"), Char("j"), Char("k"), Char("l")} -> visual_move(t, k)
      [] k = Char("y") -> yank(t)
      [] k.code = "Esc" ->
            [t EXCEPT !.input_mode = "Normal", !.selection = <<>>, !.status_message = "Ready"]
      [] OTHER -> t

\* handle_key_event: the handler of the active tab's mode
handle_key_event(t, k, terminal_width, terminal_height, i2p_mode) ==
    CASE t.input_mode = "Normal" ->
            handle_normal_mode(t, k, terminal_width, terminal_height, i2p_mode)
      [] t.input_mode = "Editing" -> handle_editing_mode(t, k, i2p_mode)
      [] t.input_mode = "Visual" -> handle_visual_mode(t, k)
      [] t.input_mode = "Search" -> handle_search_mode(t, k)
      [] OTHER -> t

\* a NetworkResponse for the tab with the given id
Response(kind, id, html_source, msg) ==
    [kind |-> kind, id |-> id, html_source |-> html_source, msg |-> msg]

\* handle_network_event on the tab the response is for
deliver(t, response, terminal_width) ==
    CASE response.kind \in {"Success", "Error"} ->
            render_tab([t EXCEPT !.html_source = IF response.kind = "Success"
                                                 THEN response.html_source
                                                 ELSE ErrorHtml(response.msg),
                                 !.scroll = 0,
                                 !.status_message = IF response.kind = "Success"
                                                    THEN "Loaded" ELSE "Error"],
                       terminal_width)
      [] response.kind = "Loading" -> [t EXCEPT !.status_message = "Fetching..."]
      [] OTHER -> [t EXCEPT !.status_message = response.msg]

UI_ROW_OFFSET == 7

\* handle_mouse_event, MouseEventKind::Down(MouseButton::Left) without the
\* control key, on a link that is no download: the cursor goes where the click
\* was, and a link under it is followed
handle_mouse_event(t, row, column, i2p_mode) ==
    IF row >= UI_ROW_OFFSET
    THEN LET real_line_idx == (row - UI_ROW_OFFSET) + t.scroll
             click_x == SatSub(column, 1)
             moved == [t EXCEPT !.cursor_line = real_line_idx, !.cursor_char = click_x]
             found == {i \in 1..Len(t.link_regions) :
                          /\ t.link_regions[i].line_index = real_line_idx
                          /\ click_x >= t.link_regions[i].x_start
                          /\ click_x < t.link_regions[i].x_end}
         IN  IF found # {}
             THEN LET region == t.link_regions[CHOOSE i \in found : \A j \in found : i <= j]
                  IN  submit_request([moved EXCEPT !.url_input =
                                          resolve_url(t.url_input, UrlChars(region.url))],
                                     i2p_mode)
             ELSE moved
    ELSE t

-----------------------------------------------------------------------------
(* Drawing the active tab (src/src/ui.rs) *)

\* apply_link_highlights: the registry is indexed by selected_link_index
\* (indexing past the registry panics)
apply_link_highlights(t) ==
    IF t.link_regions = <<>> THEN t
    ELSE IF t.selected_link_index < Len(t.link_regions) THEN t ELSE Panicked(t)

\* &v[start..end]: indexing past the vector, or backwards, panics
slice(v, start, end) ==
    IF start > end \/ end > Len(v) THEN Panic ELSE SubSeq(v, start + 1, end)

\* render_browser_content that slices without looking at start_index
viewport_content_unguarded(t, content_area_height) ==
    LET total_lines == Len(t.rendered_content)
        end_index == IF t.scroll + content_area_height <= total_lines
                     THEN t.scroll + content_area_height ELSE total_lines
    IN  slice(t.rendered_content, t.scroll, end_index)

\* render_browser_content: the lines of the viewport
viewport_content(t, content_area_height) ==
    LET start_index == t.scroll
        total_lines == Len(t.rendered_content)
        end_index == IF start_index + content_area_height <= total_lines
                     THEN start_index + content_area_height ELSE total_lines
    IN  IF start_index < total_lines
        THEN slice(t.rendered_content, start_index, end_index)
        ELSE <<>>

\* render_browser_content: the viewport is cut out, then the highlights go on
render_browser_content(t, content_area_height) ==
    IF viewport_content(t, content_area_height) = Panic THEN Panicked(t)
    ELSE apply_link_highlights(t)

MOUSE_SCROLL_LINES == 3

\* handle_mouse_event, MouseEventKind::ScrollDown and ScrollUp
handle_mouse_scroll(t, kind) ==
    CASE kind = "ScrollDown" -> [t EXCEPT !.scroll = @ + MOUSE_SCROLL_LINES]
      [] kind = "ScrollUp" -> [t EXCEPT !.scroll = SatSub(@, MOUSE_SCROLL_LINES)]

-----------------------------------------------------------------------------
(* Bounds and inputs of the tab *)

MaxBufLines == 2
MaxLineLen == 2
MaxQueryLen == 2
MaxScroll == 4
MaxViewport == 2

\* characters of the lines and of the queries: one byte wide and three
TextChars == {"a", "W"}

BufferLines == SeqsUpTo(TextChars, MaxLineLen)

\* "Hello \U+1F980 World" of test_utf8_selection_extraction
CrabLine == <<"H", "e", "l", "l", "o", " ", "U+1F980", " ", "W", "o", "r", "l", "d">>

Buffers == SeqsUpTo(BufferLines, MaxBufLines) \cup {<<CrabLine>>, <<Repeat(<<"a">>, 4)>>}

\* the selections extract_text is called on: the indices reach past the
\* last line and past the end of a line
Selections ==
    {Selection(sl, sc, el, ec) : sl \in 0..MaxBufLines, sc \in 0..(MaxLineLen + 1),
                                 el \in 0..MaxBufLines, ec \in 0..(MaxLineLen + 1)}
    \cup {Selection(0, 6, 0, 7), Selection(0, 7, 0, 6), Selection(0, 0, 0, Len(CrabLine))}

Queries == SeqsUpTo(TextChars, MaxQueryLen)

\* pages a layout leaves in the tab
TabPages ==
    { Page(<<>>, <<>>),
      Page(<< <<"a", "W">> >>, <<>>),
      Page(<< <<"a", "a", "a", "a">>, <<"a", "W">>, <<>>, <<"W", "a", "a">> >>,
           << LinkRegion("/x", 0, 0, 2), LinkRegion("/y", 1, 0, 1), LinkRegion("/x", 3, 2, 4) >>),
      Page(<< <<"W">>, <<>>, <<"a", "a", "a">> >>,
           << LinkRegion("/y", 2, 0, 3) >>) }

TermHeights == (UI_HEIGHT_OFFSET - 1)..(UI_HEIGHT_OFFSET + MaxViewport)

NormalKeys == {Char("/"), Char(">"), Char("<"), Char("x"), Key("Down", ""), Key("Up", ""),
               Key("Tab", ""), Key("BackTab", "")}

SearchKeys == {Key("Esc", ""), Key("Enter", ""), Key("Backspace", ""), Key("Tab", "")}
              \cup {Char(c) : c \in TextChars}

NoKey == Key("None", "")

\* no layout is under way: the tab is looked at on its own
NoLayout ==
    /\ term_width = 0
    /\ renderer = DomRendererNew(0)
    /\ stack = <<>>
    /\ todo = <<>>
    /\ pc = "idle"
    /\ visited = 0
    /\ input = [free |-> FALSE, events |-> <<>>]
    /\ last = "init"

-----------------------------------------------------------------------------
(* Specification of the calls on a buffer: extract_text and perform_search *)

InitCalls ==
    /\ NoLayout
    /\ tab \in {BrowserTabNew(Page(b, <<>>)) : b \in Buffers}
    /\ term_height = 0
    /\ clipboard = <<>>
    /\ key = NoKey
    /\ typed = <<>>
    /\ app = NoApp
    /\ tasks = <<>>
    /\ channel = <<>>
    /\ history = <<>>

\* BrowserTab::extract_text_from_selection on a selection
call_extract_text ==
    /\ key = NoKey
    /\ \E selection \in Selections :
         /\ tab' = [tab EXCEPT !.selection = Some(selection)]
         /\ clipboard' = Some(extract_text(selection, tab.rendered_content))
    /\ key' = Key("extract_text", "")
    /\ UNCHANGED <<rvars, netvars, history, app, term_height, typed>>

\* BrowserTab::perform_search on a query
call_perform_search ==
    /\ key = NoKey
    /\ \E query \in Queries :
         /\ tab' = perform_search(tab, query)
         /\ key' = Key("perform_search", query)
    /\ UNCHANGED <<rvars, netvars, history, app, term_height, clipboard, typed>>

NextCalls == call_extract_text \/ call_perform_search

SpecCalls == InitCalls /\ [][NextCalls]_vars

-----------------------------------------------------------------------------
(* Specification of the keys on a tab *)

InitTab ==
    /\ NoLayout
    /\ tab \in {BrowserTabNew(page) : page \in TabPages}
    /\ term_height \in TermHeights
    /\ clipboard = <<>>
    /\ key = NoKey
    /\ typed = <<>>
    /\ app = NoApp
    /\ tasks = <<>>
    /\ channel = <<>>
    /\ history = <<>>

\* handle_key_event in Normal mode
normal_key ==
    /\ tab.input_mode = "Normal"
    /\ \E k \in NormalKeys :
         /\ k.code = "Down" => tab.scroll < MaxScroll
         /\ tab' = handle_key_event(tab, k, term_width, term_height, FALSE)
         /\ key' = k
    /\ typed' = <<>>
    /\ UNCHANGED <<rvars, netvars, history, app, term_height, clipboard>>

\* what the keys typed in Search mode spell
typed_after(k) ==
    CASE k.code = "Char" -> Append(typed, k.ch)
      [] k.code = "Backspace" -> SubSeq(typed, 1, Len(typed) - 1)
      [] OTHER -> typed

\* handle_key_event in Search mode
search_key ==
    /\ tab.input_mode = "Search"
    /\ \E k \in SearchKeys :
         /\ k.code = "Char" => Len(typed) < MaxQueryLen
         /\ tab' = handle_key_event(tab, k, term_width, term_height, FALSE)
         /\ key' = k
         /\ typed' = IF tab'.input_mode = "Search" THEN typed_after(k) ELSE <<>>
    /\ UNCHANGED <<rvars, netvars, history, app, term_height, clipboard>>

NextTab == normal_key \/ search_key

SpecTab == InitTab /\ [][NextTab]_vars

-----------------------------------------------------------------------------
(* Specifications of a tab whose page changes: keys, network events,        *)
(* resizes and draws                                                        *)

Responses(id) ==
    {Response("Success", id, html, "") : html \in Pages}
    \cup {Response("Error", id, <<>>, msg) : msg \in ErrorMessages}
    \cup {Response("Loading", id, <<>>, ""), Response("Info", id, <<>>, "Connecting...")}

\* no layout is under way; the terminal has a width
LayoutIdle ==
    /\ renderer = DomRendererNew(0)
    /\ stack = <<>>
    /\ todo = <<>>
    /\ pc = "idle"
    /\ visited = 0
    /\ input = [free |-> FALSE, events |-> <<>>]
    /\ last = "init"

lvars == <<renderer, stack, todo, pc, visited, input, last>>

\* the process runs: it has neither panicked nor entered a loop without end
Running(t) == t.input_mode \notin {"Panicked", "Hung"}

InitPage ==
    /\ LayoutIdle
    /\ term_width \in TermWidths
    /\ tab \in {BrowserTabNew(page) : page \in TabPages}
    /\ term_height \in TermHeights
    /\ clipboard = <<>>
    /\ key = NoKey
    /\ typed = <<>>
    /\ app = NoApp
    /\ tasks = <<>>
    /\ channel = <<>>
    /\ history = <<>>

\* handle_key_event, 'V' in Normal mode
source_view_key ==
    /\ tab.input_mode = "Normal"
    /\ tab' = handle_key_event(tab, Char("V"), term_width, term_height, FALSE)
    /\ key' = Char("V")
    /\ typed' = <<>>
    /\ UNCHANGED <<rvars, netvars, history, app, term_height, clipboard>>

\* handle_network_event for a response of the tab
network_event ==
    /\ Running(tab)
    /\ \E response \in Responses(tab.id) :
         /\ tab' = deliver(tab, response, term_width)
         /\ key' = Key("network", response.kind)
    /\ UNCHANGED <<rvars, netvars, history, app, term_height, clipboard, typed>>

\* the terminal gets another width: App::resize_all_tabs
resize ==
    /\ Running(tab)
    /\ \E width \in TermWidths \ {term_width} :
         /\ term_width' = width
         /\ tab' = render_tab(tab, width)
    /\ key' = Key("resize", "")
    /\ UNCHANGED <<lvars, netvars, history, app, term_height, clipboard, typed>>

\* ui: the tab is drawn
draw ==
    /\ Running(tab)
    /\ key.code # "draw"
    /\ tab' = apply_link_highlights(tab)
    /\ key' = Key("draw", "")
    /\ UNCHANGED <<rvars, netvars, history, app, term_height, clipboard, typed>>

\* handle_key_event, Tab and BackTab in Normal mode
link_key ==
    /\ tab.input_mode = "Normal"
    /\ \E k \in {Key("Tab", ""), Key("BackTab", "")} :
         /\ tab' = handle_key_event(tab, k, term_width, term_height, FALSE)
         /\ key' = k
    /\ UNCHANGED <<rvars, netvars, history, app, term_height, clipboard, typed>>

NextLinks == link_key \/ source_view_key \/ network_event \/ resize \/ draw

\* the links of a tab whose page changes
SpecLinks == InitPage /\ [][NextLinks]_vars

-----------------------------------------------------------------------------
(* Specification of the cursor and the selection of a tab whose page changes *)

\* the rows and the columns of the clicks of the model
ClickRows == {UI_ROW_OFFSET - 1, UI_ROW_OFFSET + 4}
ClickColumns == {0, 3}

MaxCursorChar == 2

\* the start page of the tab: four lines and three links
HelpPage == CHOOSE page \in TabPages : Len(page.link_regions) = 3

InitVisual ==
    /\ LayoutIdle
    /\ term_width = 12
    /\ tab = BrowserTabNew(HelpPage)
    /\ term_height = UI_HEIGHT_OFFSET + MaxViewport
    /\ clipboard = <<>>
    /\ key = NoKey
    /\ typed = <<>>
    /\ app = NoApp
    /\ tasks = <<>>
    /\ channel = <<>>
    /\ history = <<>>

ModeKeys == {Char("v"), Char("e"), Char("/")}

VisualKeys == {Char("h"), Char("j"), Char("k"), Char("l"), Char("y"), Char("x"),
               Key("Esc", "")}

\* handle_key_event in Normal mode: a mode is entered
mode_key ==
    /\ tab.input_mode = "Normal"
    /\ \E k \in ModeKeys :
         /\ tab' = handle_key_event(tab, k, term_width, term_height, FALSE)
         /\ key' = k
    /\ UNCHANGED <<rvars, netvars, history, app, term_height, clipboard, typed>>

\* handle_key_event in Visual mode (the system clipboard, which no handler of
\* the model reads, is left out)
visual_key ==
    /\ tab.input_mode = "Visual"
    /\ \E k \in VisualKeys :
         /\ k = Char("l") => tab.cursor_char < MaxCursorChar
         /\ tab' = handle_key_event(tab, k, term_width, term_height, FALSE)
         /\ key' = k
    /\ UNCHANGED <<rvars, netvars, history, app, term_height, clipboard, typed>>

\* handle_key_event in Editing and in Search mode: the mode is left
leave_key ==
    /\ tab.input_mode \in {"Editing", "Search"}
    /\ \E k \in {Key("Esc", ""), Key("Enter", "")} :
         /\ tab' = handle_key_event(tab, k, term_width, term_height, FALSE)
         /\ key' = k
    /\ UNCHANGED <<rvars, netvars, history, app, term_height, clipboard, typed>>

\* handle_mouse_event for a click of the left button
mouse_click ==
    /\ Running(tab)
    /\ \E row \in ClickRows, column \in ClickColumns :
         tab' = handle_mouse_event(tab, row, column, FALSE)
    /\ key' = Key("click", "")
    /\ UNCHANGED <<rvars, netvars, history, app, term_height, clipboard, typed>>

\* handle_network_event for a response that brings a page: Success or Error
page_event ==
    /\ Running(tab)
    /\ \E response \in {r \in Responses(tab.id) : r.kind \in {"Success", "Error"}} :
         /\ tab' = deliver(tab, response, term_width)
         /\ key' = Key("network", response.kind)
    /\ UNCHANGED <<rvars, netvars, history, app, term_height, clipboard, typed>>

NextVisual ==
    mode_key \/ visual_key \/ leave_key \/ mouse_click
    \/ source_view_key \/ page_event

SpecVisual == InitVisual /\ [][NextVisual]_vars

-----------------------------------------------------------------------------
(* Specification of the search matches of a tab whose page changes *)

\* handle_key_event in Normal mode: '/', '>' and '<'
match_key ==
    /\ tab.input_mode = "Normal"
    /\ \E k \in {Char("/"), Char(">"), Char("<")} :
         /\ tab' = handle_key_event(tab, k, term_width, term_height, FALSE)
         /\ key' = k
    /\ typed' = <<>>
    /\ UNCHANGED <<rvars, netvars, history, app, term_height, clipboard>>

InitMatches ==
    /\ LayoutIdle
    /\ term_width \in TermWidths
    /\ tab \in {BrowserTabNew(page) : page \in TabPages}
    /\ term_height = UI_HEIGHT_OFFSET + MaxViewport
    /\ clipboard = <<>>
    /\ key = NoKey
    /\ typed = <<>>
    /\ app = NoApp
    /\ tasks = <<>>
    /\ channel = <<>>
    /\ history = <<>>

NextMatches == match_key \/ search_key \/ source_view_key \/ page_event \/ resize

SpecMatches == InitMatches /\ [][NextMatches]_vars

-----------------------------------------------------------------------------
(* Specification of the calls of submit_request on an address *)

MaxUrlLen == 2

\* what the address bar may hold
UrlInputs ==
    { prefix \o body \o suffix :
        prefix \in {<<>>, <<"h", "t", "t", "p", ":", "/", "/">>, <<"h", "t", "t", "p", "s", ":", "/", "/">>,
                    <<"h", "t", "t", "p", ":", "/">>},
        body \in SeqsUpTo({"a", ".", " ", "/"}, MaxUrlLen),
        suffix \in {<<>>, <<".", "i", "2", "p">>} }
    \cup { <<"r", "u", "s", "t", " ", "p", "r", "o", "g", "r", "a", "m", "m", "i", "n", "g">>,
           <<"h", "t", "t", "p", ":", "/", "/">> \o <<"l", "o", "c", "a", "l", "h", "o", "s", "t">>,
           <<"h", "t", "t", "p", ":", "/", "/">> \o <<"1", "2", "7", ".", "0", ".", "0", ".", "1">> \o <<"/">> }

InitSubmit ==
    /\ NoLayout
    /\ tab \in {[BrowserTabNew(Page(<<>>, <<>>)) EXCEPT !.url_input = url] : url \in UrlInputs}
    /\ term_height = 0
    /\ clipboard = <<>>
    /\ key = NoKey
    /\ typed = <<>>
    /\ app = NoApp
    /\ tasks = <<>>
    /\ channel = <<>>
    /\ history = <<>>

\* App::submit_request on the address of the tab, with or without I2P mode
call_submit_request ==
    /\ key = NoKey
    /\ \E use_i2p \in BOOLEAN :
         /\ tab' = submit_request(tab, use_i2p)
         /\ key' = Key("submit_request", IF use_i2p THEN "i2p" ELSE "")
    /\ typed' = tab.url_input
    /\ UNCHANGED <<rvars, netvars, history, app, term_height, clipboard>>

NextSubmit == call_submit_request

SpecSubmit == InitSubmit /\ [][NextSubmit]_vars

-----------------------------------------------------------------------------
(* The App and its tabs (src/src/app.rs, src/src/event_handler.rs) *)

\* BrowserTab::new: the tab of an id and an address, with the start page
NewTab(id, initial_url) ==
    [BrowserTabNew(HelpPage) EXCEPT !.id = id, !.url_input = initial_url]

\* App::new
AppNew ==
    [tabs |-> <<NewTab(0, StartUrl)>>, active_tab_index |-> 0, id_counter |-> 1,
     i2p_mode |-> FALSE]

\* App::current_tab
current_tab(a) == a.tabs[a.active_tab_index + 1]

\* the App with the tab at an index replaced
with_tab(a, index, t) == [a EXCEPT !.tabs[index + 1] = t]

\* Vec::remove
remove(v, index) == SubSeq(v, 1, index) \o SubSeq(v, index + 2, Len(v))

\* App::add_tab that numbers the new tab by the length of the tab list
add_tab_numbers_by_length(a, url) ==
    LET start_url == IF url = <<>> THEN StartUrl ELSE url[1] IN
    [a EXCEPT !.tabs = Append(@, NewTab(Len(a.tabs), start_url)),
              !.active_tab_index = Len(a.tabs),
              !.id_counter = @ + 1]

\* App::add_tab
add_tab(a, url) ==
    LET start_url == IF url = <<>> THEN StartUrl ELSE url[1] IN
    [a EXCEPT !.tabs = Append(@, NewTab(a.id_counter, start_url)),
              !.active_tab_index = Len(a.tabs),
              !.id_counter = @ + 1]

\* App::close_tab that leaves active_tab_index where it was
close_tab_keeps_index(a) ==
    IF Len(a.tabs) > 1 THEN [a EXCEPT !.tabs = remove(a.tabs, a.active_tab_index)] ELSE a

\* App::close_tab
close_tab(a) ==
    IF Len(a.tabs) > 1
    THEN LET tabs == remove(a.tabs, a.active_tab_index) IN
         [a EXCEPT !.tabs = tabs,
                   !.active_tab_index = IF @ >= Len(tabs) THEN Len(tabs) - 1 ELSE @]
    ELSE a

\* App::submit_request, which acts on the current tab
App_submit_request(a) ==
    with_tab(a, a.active_tab_index, submit_request(current_tab(a), a.i2p_mode))

\* App::open_link_in_new_tab
open_link_in_new_tab(a, url) ==
    App_submit_request([a EXCEPT !.tabs = Append(@, NewTab(a.id_counter, url)),
                                 !.active_tab_index = Len(a.tabs),
                                 !.id_counter = @ + 1])

\* the keys of Normal mode that act on the App
TabControls == {Char("n"), Char("t"), Char("w"), Char("]"), Char("["), Char("p")}

\* handle_normal_mode on the App: the tab controls and 'p'; every other key
\* acts on the current tab
App_handle_normal_mode(a, k, terminal_width, terminal_height) ==
    LET t == current_tab(a) IN
    CASE k = Char("n") -> add_tab(a, <<>>)
      [] k = Char("t") ->
            IF t.selected_link_index < Len(t.link_regions)
            THEN open_link_in_new_tab(
                     a, resolve_url(t.url_input,
                                    UrlChars(t.link_regions[t.selected_link_index + 1].url)))
            ELSE a
      [] k = Char("w") -> close_tab(a)
      [] k = Char("]") ->
            [a EXCEPT !.active_tab_index = (@ + 1) % Len(a.tabs)]
      [] k = Char("[") ->
            [a EXCEPT !.active_tab_index = IF @ > 0 THEN @ - 1 ELSE Len(a.tabs) - 1]
      [] k = Char("p") -> [a EXCEPT !.i2p_mode = ~@]
      [] OTHER ->
            with_tab(a, a.active_tab_index,
                     handle_normal_mode(t, k, terminal_width, terminal_height, a.i2p_mode))

\* handle_key_event that takes every key for a key of Normal mode
App_handle_key_event_as_normal(a, k, terminal_width, terminal_height) ==
    App_handle_normal_mode(a, k, terminal_width, terminal_height)

\* handle_key_event on the App: the key goes to the handler of the mode of the
\* active tab
App_handle_key_event(a, k, terminal_width, terminal_height) ==
    IF current_tab(a).input_mode = "Normal"
    THEN App_handle_normal_mode(a, k, terminal_width, terminal_height)
    ELSE with_tab(a, a.active_tab_index,
                  handle_key_event(current_tab(a), k, terminal_width, terminal_height,
                                   a.i2p_mode))

\* tabs.iter().position(|t| t.id == target_id): the indices of the tabs of an id
position(tabs, target_id) == {i \in 0..(Len(tabs) - 1) : tabs[i + 1].id = target_id}

\* handle_network_event that delivers to the active tab
handle_network_event_to_active(a, response, terminal_width) ==
    with_tab(a, a.active_tab_index, deliver(current_tab(a), response, terminal_width))

\* handle_network_event: the response goes to the first tab of its id, if any
handle_network_event(a, response, terminal_width) ==
    IF position(a.tabs, response.id) = {} THEN a
    ELSE LET index == CHOOSE i \in position(a.tabs, response.id) :
                          \A j \in position(a.tabs, response.id) : i <= j
         IN  with_tab(a, index, deliver(a.tabs[index + 1], response, terminal_width))

\* App::resize_all_tabs
resize_all_tabs(a, width) ==
    [a EXCEPT !.tabs = [i \in 1..Len(a.tabs) |-> render_tab(a.tabs[i], width)]]

-----------------------------------------------------------------------------
(* Specification of the App: keys and network events on several tabs *)

MaxTabs == 2
MaxIds == 3
MaxTyped == 1
MaxAppScroll == 1

\* no tab looked at on its own: the tabs are those of the App
InitApp ==
    /\ LayoutIdle
    /\ term_width = 12
    /\ tab = None
    /\ term_height = UI_HEIGHT_OFFSET + MaxViewport
    /\ clipboard = <<>>
    /\ key = NoKey
    /\ typed = <<>>
    /\ app = AppNew
    /\ tasks = <<>>
    /\ channel = <<>>
    /\ history = <<>>

\* every tab of the App runs
AppRunning(a) == \A i \in 1..Len(a.tabs) : Running(a.tabs[i])

\* the keys pressed in Normal mode
AppNormalKeys ==
    TabControls \cup {Char("e"), Char("v"), Char("/")}

\* the keys pressed in Editing, Visual and Search mode
AppModeKeys == {Key("Esc", ""), Key("Enter", ""), Char("w"), Char("]"), Char("y")}

\* handle_key_event in Normal mode of the active tab
app_normal_key ==
    /\ AppRunning(app)
    /\ current_tab(app).input_mode = "Normal"
    /\ \E k \in AppNormalKeys :
         /\ k \in {Char("n"), Char("t")} =>
                Len(app.tabs) < MaxTabs /\ app.id_counter < MaxIds
         /\ app' = App_handle_key_event(app, k, term_width, term_height)
         /\ key' = k
    /\ UNCHANGED <<rvars, netvars, history, tab, term_height, clipboard, typed>>

\* handle_key_event in Editing, Visual or Search mode of the active tab
app_mode_key ==
    /\ AppRunning(app)
    /\ current_tab(app).input_mode # "Normal"
    /\ \E k \in AppModeKeys :
         /\ (k.code = "Char" /\ current_tab(app).input_mode = "Editing") =>
                Len(current_tab(app).url_input) < Len(StartUrl) + MaxTyped
         /\ app' = App_handle_key_event(app, k, term_width, term_height)
         /\ key' = k
    /\ UNCHANGED <<rvars, netvars, history, tab, term_height, clipboard, typed>>

NextApp == app_normal_key \/ app_mode_key

SpecApp == InitApp /\ [][NextApp]_vars

-----------------------------------------------------------------------------
(* Specification of the deliveries to the tabs of the App *)

\* handle_key_event in Normal mode: the tab controls and Down
app_tab_key ==
    /\ AppRunning(app)
    /\ \E k \in (TabControls \ {Char("p")}) \cup {Key("Down", "")} :
         /\ k \in {Char("n"), Char("t")} =>
                Len(app.tabs) < MaxTabs /\ app.id_counter < MaxIds
         /\ k.code = "Down" => current_tab(app).scroll < MaxAppScroll
         /\ app' = App_handle_key_event(app, k, term_width, term_height)
         /\ key' = k
    /\ UNCHANGED <<rvars, netvars, history, tab, term_height, clipboard, typed>>

\* the responses to the request of an id
AppResponses(id) ==
    {Response("Success", id, LinksHtml, ""), Response("Error", id, <<>>, "x"),
     Response("Loading", id, <<>>, ""), Response("Info", id, <<>>, "Connecting...")}

\* handle_network_event for a response to a request of an id given out so far
app_network_event ==
    /\ AppRunning(app)
    /\ \E id \in 0..(app.id_counter - 1) :
         \E response \in AppResponses(id) :
             /\ app' = handle_network_event(app, response, term_width)
             /\ key' = Key("network", response.kind)
    /\ UNCHANGED <<rvars, netvars, history, tab, term_height, clipboard, typed>>

NextDelivery == app_tab_key \/ app_network_event

SpecDelivery == InitApp /\ [][NextDelivery]_vars

-----------------------------------------------------------------------------
(* Specification of the resizes of the App *)

InitResize ==
    /\ LayoutIdle
    /\ term_width \in TermWidths
    /\ tab = None
    /\ term_height = UI_HEIGHT_OFFSET + MaxViewport
    /\ clipboard = <<>>
    /\ key = NoKey
    /\ typed = <<>>
    /\ app = AppNew
    /\ tasks = <<>>
    /\ channel = <<>>
    /\ history = <<>>

\* handle_key_event, 'n' in Normal mode
new_tab_key ==
    /\ AppRunning(app)
    /\ Len(app.tabs) < MaxTabs
    /\ app.id_counter < MaxIds
    /\ app' = App_handle_key_event(app, Char("n"), term_width, term_height)
    /\ key' = Char("n")
    /\ UNCHANGED <<rvars, netvars, history, tab, term_height, clipboard, typed>>

\* handle_network_event for a Success response to a request of a tab
app_page_event ==
    /\ AppRunning(app)
    /\ \E id \in 0..(app.id_counter - 1) :
         \E html \in Pages :
             app' = handle_network_event(app, Response("Success", id, html, ""), term_width)
    /\ key' = Key("network", "Success")
    /\ UNCHANGED <<rvars, netvars, history, tab, term_height, clipboard, typed>>

\* the terminal gets another width: App::resize_all_tabs
call_resize_all_tabs ==
    /\ AppRunning(app)
    /\ \E width \in TermWidths \ {term_width} :
         /\ term_width' = width
         /\ app' = resize_all_tabs(app, width)
    /\ key' = Key("resize", "")
    /\ UNCHANGED <<lvars, netvars, history, tab, term_height, clipboard, typed>>

NextResize == new_tab_key \/ app_page_event \/ call_resize_all_tabs

SpecResize == InitResize /\ [][NextResize]_vars

-----------------------------------------------------------------------------
(* Specification of push_word on one token: the hard-wrap loop pass by pass *)

MaxTokenLen == 4

\* the tokens split_whitespace hands to push_word
Tokens == SeqsUpTo({"a", "W", "z"}, MaxTokenLen) \ {<<>>}

\* the widths DomRenderer::new is called with
SplitWidths == 2..5

\* the renderer push_word finds: a fresh one, inside a list or not, with a
\* word on the current line or not
SplitRenderers ==
    { IF first THEN push_span_to_line(apply_indentation(r), <<"b">>) ELSE r :
        first \in BOOLEAN,
        r \in {[DomRendererNew(width) EXCEPT !.list_depth = depth] :
                   width \in SplitWidths, depth \in 0..1} }

InitSplit ==
    /\ NoKeysYet
    /\ app = NoApp
    /\ tasks = <<>>
    /\ channel = <<>>
    /\ history = <<>>
    /\ term_width = 0
    /\ renderer \in SplitRenderers
    /\ stack = <<>>
    /\ todo = <<>>
    /\ pc = "idle"
    /\ visited = 0
    /\ \E token \in Tokens : input = [free |-> FALSE, events |-> <<Text(token)>>]
    /\ last = "init"

\* push_word on the token, up to the hard-wrap loop
call_push_word ==
    /\ pc = "idle"
    /\ LET pushed == push_word(renderer, input.events[1].text) IN
         /\ renderer' = pushed.r
         /\ todo' = IF pushed.hard THEN <<Op("hard_wrap", input.events[1].text)>> ELSE <<>>
    /\ pc' = "walk"
    /\ last' = "push_word"
    /\ UNCHANGED <<term_width, stack, visited, input>>
    /\ UNCHANGED appvars

NextSplit == call_push_word \/ hard_wrap

SpecSplit == InitSplit /\ [][NextSplit]_vars

-----------------------------------------------------------------------------
(* Specification of the viewport of a tab that is scrolled and drawn *)

\* handle_key_event, Down and Up in Normal mode
scroll_key ==
    /\ Running(tab)
    /\ \E k \in {Key("Down", ""), Key("Up", "")} :
         /\ k.code = "Down" => tab.scroll < MaxScroll
         /\ tab' = handle_key_event(tab, k, term_width, term_height, FALSE)
         /\ key' = k
    /\ UNCHANGED <<rvars, netvars, history, app, term_height, clipboard, typed>>

\* handle_mouse_event for the wheel
mouse_wheel ==
    /\ Running(tab)
    /\ \E kind \in {"ScrollDown", "ScrollUp"} :
         /\ kind = "ScrollDown" => tab.scroll < MaxScroll
         /\ tab' = handle_mouse_scroll(tab, kind)
         /\ key' = Key("wheel", kind)
    /\ UNCHANGED <<rvars, netvars, history, app, term_height, clipboard, typed>>

\* ui: the content of the tab is drawn into an area of some height
draw_content ==
    /\ Running(tab)
    /\ \E content_area_height \in 0..MaxViewport :
         tab' = render_browser_content(tab, content_area_height)
    /\ key' = Key("draw", "")
    /\ UNCHANGED <<rvars, netvars, history, app, term_height, clipboard, typed>>

NextView == scroll_key \/ mouse_wheel \/ draw_content

SpecView == InitTab /\ [][NextView]_vars

-----------------------------------------------------------------------------
(* The requests: the task App::submit_request spawns, attempt_jump, the      *)
(* channel and the main loop that receives from it                           *)
(* (src/src/app.rs, src/src/network.rs, src/src/main.rs)                     *)

JUMP_SERVICES ==
    <<"http://i2p-projekt.i2p/jump/", "http://stats.i2p/jump/", "http://reg.i2p/jump/">>

\* what client.get(jump_url).send() comes to: a response of status 200, a
\* response of another status, or no response at all
JumpOutcomes == {"OK", "NOT_FOUND", "unreachable"}

\* attempt_jump from the service at index `from` on: the services contacted,
\* the messages sent and what is returned
RECURSIVE jump_loop(_, _, _)
jump_loop(id, outcomes, from) ==
    IF from > Len(JUMP_SERVICES)
    THEN [result |-> "Err", error |-> "All jump services failed.", service |-> 0,
          contacted |-> <<>>, sent |-> <<>>]
    ELSE LET info == Response("Info", id, <<>>, "Contacting jump service") IN
         IF outcomes[from] = "unreachable"
         THEN [result |-> "Err", error |-> "error sending request", service |-> 0,
               contacted |-> <<from>>, sent |-> <<info>>]
         ELSE IF outcomes[from] = "OK"
         THEN [result |-> "Ok", error |-> "", service |-> from,
               contacted |-> <<from>>, sent |-> <<info>>]
         ELSE LET rest == jump_loop(id, outcomes, from + 1) IN
              [rest EXCEPT !.contacted = <<from>> \o @, !.sent = <<info>> \o @]

\* attempt_jump
attempt_jump(id, outcomes) ==
    LET looped == jump_loop(id, outcomes, 1) IN
    [looped EXCEPT !.sent = <<Response("Info", id, <<>>,
                                       "Address not found. Requesting Jump Helper...")>> \o @]

\* what becomes of the response once it is there: its announced length is too
\* large, its text cannot be read, or its text is a page
Bodies == {[oversized |-> TRUE, text |-> <<>>],
           [oversized |-> FALSE, text |-> <<>>],
           [oversized |-> FALSE, text |-> <<LinksHtml>>],
           [oversized |-> FALSE, text |-> <<ParagraphHtml>>]}

\* the task, `match resp_result` without the return after "Page too large"
terminal_messages_without_return(id, resp_result, body) ==
    IF resp_result = "Err" THEN <<Response("Error", id, <<>>, "x")>>
    ELSE (IF body.oversized THEN <<Response("Error", id, <<>>, "Page too large")>>
          ELSE <<>>)
         \o (IF body.text = <<>> THEN <<Response("Error", id, <<>>, "x")>>
             ELSE <<Response("Success", id, body.text[1], "")>>)

\* the task, `match resp_result`: the messages it sends
terminal_messages(id, resp_result, body) ==
    IF resp_result = "Err" THEN <<Response("Error", id, <<>>, "x")>>
    ELSE IF body.oversized THEN <<Response("Error", id, <<>>, "Page too large")>>
    ELSE IF body.text = <<>> THEN <<Response("Error", id, <<>>, "x")>>
    ELSE <<Response("Success", id, body.text[1], "")>>

\* mpsc::channel(10)
CHANNEL_CAPACITY == 10

MaxRequests == 2

\* the task tokio::spawn starts for the tab of an id
Task(id) == [id |-> id, pc |-> "spawned", resp_result |-> "None", sent |-> <<>>]

\* the task sends its messages (tx.send waits while the channel is full)
Sends(i, messages, pc_after, resp_result) ==
    /\ Len(channel) + Len(messages) <= CHANNEL_CAPACITY
    /\ channel' = channel \o messages
    /\ tasks' = [tasks EXCEPT ![i] = [@ EXCEPT !.sent = @ \o messages,
                                               !.pc = pc_after,
                                               !.resp_result = resp_result]]

\* App::submit_request on the current tab: the address is written back and
\* the task is spawned
spawn_request ==
    /\ AppRunning(app)
    /\ Len(tasks) < MaxRequests
    /\ app' = App_submit_request(app)
    /\ tasks' = Append(tasks, Task(current_tab(app).id))
    /\ key' = Key("submit", "")
    /\ UNCHANGED <<rvars, history, tab, term_height, clipboard, typed, channel>>

\* the task: tx_clone.send(NetworkResponse::Loading(id))
task_loading ==
    /\ \E i \in 1..Len(tasks) :
         /\ tasks[i].pc = "spawned"
         /\ Sends(i, <<Response("Loading", tasks[i].id, <<>>, "")>>, "get", "None")
    /\ UNCHANGED <<rvars, history, tab, term_height, clipboard, key, typed, app>>

\* the task: client.get(&target_url).send() returns
task_get ==
    /\ \E i \in 1..Len(tasks) :
         /\ tasks[i].pc = "get"
         /\ \E got \in {"Err", "Ok", "SERVICE_UNAVAILABLE"} :
              tasks' = [tasks EXCEPT ![i] =
                           [@ EXCEPT !.pc = IF got = "SERVICE_UNAVAILABLE" THEN "jump"
                                            ELSE "respond",
                                     !.resp_result = IF got = "Err" THEN "Err" ELSE "Ok"]]
    /\ UNCHANGED <<rvars, history, tab, term_height, clipboard, key, typed, app, channel>>

\* the task: attempt_jump after a status 500 or 503; whatever it returns,
\* resp_result stays a response
task_jump ==
    /\ \E i \in 1..Len(tasks) :
         /\ tasks[i].pc = "jump"
         /\ \E outcomes \in [1..Len(JUMP_SERVICES) -> JumpOutcomes] :
              Sends(i, attempt_jump(tasks[i].id, outcomes).sent, "respond", "Ok")
    /\ UNCHANGED <<rvars, history, tab, term_height, clipboard, key, typed, app>>

\* the task: match resp_result
task_respond ==
    /\ \E i \in 1..Len(tasks) :
         /\ tasks[i].pc = "respond"
         /\ \E body \in Bodies :
              Sends(i, terminal_messages(tasks[i].id, tasks[i].resp_result, body),
                    "done", tasks[i].resp_result)
    /\ UNCHANGED <<rvars, history, tab, term_height, clipboard, key, typed, app>>

\* the main loop: app.rx.try_recv() and handle_network_event
recv_response ==
    /\ AppRunning(app)
    /\ channel # <<>>
    /\ app' = handle_network_event(app, Head(channel), term_width)
    /\ channel' = Tail(channel)
    /\ key' = Key("network", Head(channel).kind)
    /\ UNCHANGED <<rvars, history, tab, term_height, clipboard, typed, tasks>>

NextRequests ==
    spawn_request \/ task_loading \/ task_get \/ task_jump \/ task_respond
        \/ recv_response

SpecRequests == InitApp /\ [][NextRequests]_vars

-----------------------------------------------------------------------------
(* Specification of attempt_jump: one call, and the main loop that receives *)
(* its messages                                                              *)

\* a task calls attempt_jump for the tab of an id; what the services come to is
\* kept with what the call returned
call_attempt_jump ==
    /\ tasks = <<>>
    /\ \E id \in 0..1, outcomes \in [1..Len(JUMP_SERVICES) -> JumpOutcomes] :
         LET jumped == attempt_jump(id, outcomes) IN
         /\ tasks' = <<[id |-> id, pc |-> "jumped", outcomes |-> outcomes,
                        resp_result |-> jumped.result, error |-> jumped.error,
                        service |-> jumped.service, contacted |-> jumped.contacted,
                        sent |-> jumped.sent]>>
         /\ channel' = jumped.sent
    /\ key' = Key("attempt_jump", "")
    /\ UNCHANGED <<rvars, history, tab, term_height, clipboard, typed, app>>

NextJump == call_attempt_jump \/ recv_response

SpecJump == InitApp /\ [][NextJump]_vars

-----------------------------------------------------------------------------
(* The history of a tab: what the handlers push and pop                      *)
(* (src/src/event_handler.rs)                                                *)

\* if !tab.url_input.is_empty() { tab.history.push(tab.url_input.clone()) }
history_push(h, t) == IF t.url_input # <<>> THEN Append(h, t.url_input) ELSE h

\* handle_normal_mode and handle_editing_mode: the history after the key
history_after_key(t, h, k) ==
    CASE t.input_mode = "Normal" /\ k.code = "Enter"
             /\ t.selected_link_index < Len(t.link_regions) -> history_push(h, t)
      [] t.input_mode = "Editing" /\ k.code = "Enter" -> history_push(h, t)
      [] OTHER -> h

\* handle_mouse_event: the links under a click of the left button
links_under(t, row, column) ==
    {i \in 1..Len(t.link_regions) :
        /\ row >= UI_ROW_OFFSET
        /\ t.link_regions[i].line_index = (row - UI_ROW_OFFSET) + t.scroll
        /\ SatSub(column, 1) >= t.link_regions[i].x_start
        /\ SatSub(column, 1) < t.link_regions[i].x_end}

\* handle_mouse_event: the history after a click
history_after_click(t, h, row, column) ==
    IF links_under(t, row, column) # {} THEN history_push(h, t) ELSE h

\* handle_normal_mode, Backspace and Left: the tab and the history after it
history_back(t, h, i2p_mode) ==
    IF h = <<>> THEN [tab |-> t, history |-> h]
    ELSE [tab |-> submit_request([t EXCEPT !.url_input = h[Len(h)]], i2p_mode),
          history |-> SubSeq(h, 1, Len(h) - 1)]

MaxHistory == 2

HistoryKeys == {Key("Enter", ""), Key("Esc", ""), Char("e"), Char("w")}

\* the tab shows the start page of its address; nothing was visited before
InitHistory ==
    /\ LayoutIdle
    /\ term_width = 12
    /\ tab = BrowserTabNew(HelpPage)
    /\ term_height = UI_HEIGHT_OFFSET + MaxViewport
    /\ clipboard = <<>>
    /\ key = NoKey
    /\ typed = StartUrl
    /\ app = NoApp
    /\ tasks = <<>>
    /\ channel = <<>>
    /\ history = <<>>

\* handle_key_event: Enter on the selected link, 'e', a character typed into
\* the address, Enter and Esc in Editing mode (typed: the address requested
\* last, which is the address of the page that is shown)
history_key ==
    /\ tab.input_mode \in {"Normal", "Editing"}
    /\ \E k \in HistoryKeys :
         /\ (k.code = "Char" /\ tab.input_mode = "Editing") =>
                Len(tab.url_input) < Len(StartUrl) + MaxTyped
         /\ Len(history_after_key(tab, history, k)) <= MaxHistory
         /\ tab' = handle_key_event(tab, k, term_width, term_height, FALSE)
         /\ history' = history_after_key(tab, history, k)
         /\ typed' = IF history_after_key(tab, history, k) # history
                     THEN tab'.url_input ELSE typed
         /\ key' = k
    /\ UNCHANGED <<rvars, netvars, app, term_height, clipboard>>

\* handle_mouse_event: a click on the first link, or beside the links
history_click ==
    /\ Running(tab)
    /\ \E row \in {UI_ROW_OFFSET, UI_ROW_OFFSET + 2} :
         /\ Len(history_after_click(tab, history, row, 1)) <= MaxHistory
         /\ tab' = handle_mouse_event(tab, row, 1, FALSE)
         /\ history' = history_after_click(tab, history, row, 1)
         /\ typed' = IF links_under(tab, row, 1) # {} THEN tab'.url_input ELSE typed
         /\ key' = Key("click", IF links_under(tab, row, 1) # {} THEN "link" ELSE "")
    /\ UNCHANGED <<rvars, netvars, app, term_height, clipboard>>

\* handle_key_event in Normal mode, Backspace and Left
back_key ==
    /\ tab.input_mode = "Normal"
    /\ \E k \in {Key("Backspace", ""), Key("Left", "")} :
         /\ tab' = history_back(tab, history, FALSE).tab
         /\ history' = history_back(tab, history, FALSE).history
         /\ typed' = IF history # <<>> THEN tab'.url_input ELSE typed
         /\ key' = k
    /\ UNCHANGED <<rvars, netvars, app, term_height, clipboard>>

NextHistory == history_key \/ history_click \/ back_key

SpecHistory == InitHistory /\ [][NextHistory]_vars

-----------------------------------------------------------------------------
(* What the claims speak of *)

LineWidth(line) == StrWidth(LineText(line))

Spaces(n) == Repeat(<<" ">>, n)

\* characters still to be laid out by the statements in todo
RECURSIVE RemainingChars(_)
RemainingChars(ops) ==
    IF ops = <<>> THEN 0
    ELSE (IF Head(ops).op \in {"hard_wrap", "push_word", "word"} THEN Len(Head(ops).arg) ELSE 0)
         + RemainingChars(Tail(ops))

RenderDone == pc = "done"

ScenarioDone == RenderDone /\ ~input.free

\* C1: every produced line is at most max_width columns wide, unless it holds
\* exactly one character that is itself wider than max_width; indentation counts
\* (checked for max_width >= 3, where the indentation of a first-level list
\* leaves room on the line).
C1_WidthInvariant ==
    renderer.max_width >= 3 =>
        \A i \in 1..Len(renderer.lines) :
            LET line == renderer.lines[i] IN
            \/ LineWidth(line) <= renderer.max_width
            \/ Len(LineText(line)) = 1 /\ CharWidth(LineText(line)[1]) > renderer.max_width

\* C2: every pass of the hard-wrap loop consumes at least one character of the
\* token that remains, so the loop (and with it render) ends.
C2_HardWrapProgress ==
    [][todo # <<>> => RemainingChars(todo') < RemainingChars(todo)]_vars

\* C3: the max_width used for wrapping is at least 1, whatever width was asked for.
C3_MinimumWidth == renderer.max_width >= 1

\* C4: <h1>Hi</h1><p>See <a href="/x">this</a>.</p> at width 40 gives exactly the
\* lines "Hi" (bold), a blank line and "See this." (a blank line that closes the
\* paragraph is let pass).
C4_ScenarioLines ==
    ScenarioDone =>
        /\ Len(renderer.lines) >= 3
        /\ \A i \in 4..Len(renderer.lines) : renderer.lines[i] = <<>>
        /\ LineText(renderer.lines[1]) = <<"H", "i">>
        /\ \A k \in 1..Len(renderer.lines[1]) : renderer.lines[1][k].style.bold
        /\ renderer.lines[2] = <<>>
        /\ LineText(renderer.lines[3]) = <<"S", "e", "e", " ", "t", "h", "i", "s", ".">>

\* C5: for the same document the link registry holds exactly one region,
\* {url: "/x", line_index: 2, x_start: 4, x_end: 8}: the space before the
\* anchor's first word is not part of it.
C5_ScenarioLink ==
    ScenarioDone =>
        renderer.links = << [url |-> "/x", line_index |-> 2, x_start |-> 4, x_end |-> 8] >>

\* C6: after a layout the regions of a line are pairwise disjoint and sorted by
\* x_start, and no region is empty (x_start < x_end) (checked for max_width >= 1).
C6_LinkRegionInvariant ==
    (RenderDone /\ renderer.max_width >= 1) =>
        /\ \A i \in 1..Len(renderer.links) :
              renderer.links[i].x_start < renderer.links[i].x_end
        /\ \A i, j \in 1..Len(renderer.links) :
              (i < j /\ renderer.links[i].line_index = renderer.links[j].line_index)
                  => renderer.links[i].x_end <= renderer.links[j].x_start

Abuts(a, b) == a.url = b.url /\ a.line_index = b.line_index /\ a.x_end = b.x_start

\* tokens push_span_to_line is tried on in every reachable state
ProbeTokens == {<<>>, <<"a">>, <<"W">>, <<"z">>, <<" ", " ">>}

\* C7: a token appended under an active link extends the last region when that
\* region has the same URL and line and ends where the token starts, and the
\* number of regions stays; otherwise exactly one region is appended.  So no two
\* consecutive regions have the same URL, the same line and abutting columns.
C7_ContiguityMerge ==
    /\ \A i \in 1..(Len(renderer.links) - 1) : ~Abuts(renderer.links[i], renderer.links[i + 1])
    /\ renderer.active_link_url # None =>
          \A token \in ProbeTokens :
              LET after == push_span_to_line(renderer, token).links
                  n == Len(renderer.links)
                  start_x == renderer.current_line_width
                  region == [url |-> renderer.active_link_url,
                             line_index |-> Len(renderer.lines),
                             x_start |-> start_x,
                             x_end |-> start_x + StrWidth(token)]
              IN  IF n > 0 /\ Abuts(renderer.links[n], region)
                  THEN after = [renderer.links EXCEPT ![n].x_end = region.x_end]
                  ELSE after = Append(renderer.links, region)

\* a token was merged into a region: the line holds several spans and one region
C7_Witness ==
    /\ renderer.active_link_url # None
    /\ Len(renderer.current_line) >= 2
    /\ Len(renderer.links) = 1
    /\ renderer.links[1].x_start = 0
    /\ renderer.links[1].x_end = renderer.current_line_width
    /\ renderer.current_line_width >= 2

\* C8: when walk returns from an element, current_style, active_link_url,
\* preserve_whitespace and list_depth are what they were when it was entered;
\* after render, list_depth is 0 and no link is active.
C8_StackDiscipline ==
    /\ [][last' = "return" =>
            LET frame == stack[Len(stack)] IN
            /\ renderer'.current_style = frame.old_style
            /\ renderer'.active_link_url = frame.old_link
            /\ renderer'.preserve_whitespace = frame.old_preserve
            /\ renderer'.list_depth = frame.entry_depth]_vars
    /\ [](RenderDone => renderer.list_depth = 0 /\ renderer.active_link_url = None)

\* render is over for a tree with a link inside a list: a line starts with the
\* indentation of a first-level list in the style of a link, and walk has
\* returned from both elements
C8_Witness ==
    /\ RenderDone
    /\ renderer.links # <<>>
    /\ \E i \in 1..Len(renderer.lines) :
          /\ Len(renderer.lines[i]) >= 2
          /\ renderer.lines[i][1].content = Spaces(2)
          /\ renderer.lines[i][1].style.fg = "Cyan"

\* the skip conditions as the claim lists them
ClaimSkips(e) ==
    \/ e.tag \in {"script", "style", "head", "meta", "link"}
    \/ e.hidden
    \/ e.aria_hidden = "true"

\* C9: walking a script, style, head, meta or link element, or one with a hidden
\* attribute or aria-hidden="true", changes nothing of the renderer and visits
\* none of its descendants.
C9_SkippedSubtrees ==
    /\ [](\A e \in Elements :
            ClaimSkips(e) =>
                walk_element(renderer, e) = [r |-> renderer, todo |-> <<>>, frames |-> <<>>])
    /\ [][last' = "skip" => UNCHANGED <<renderer, stack, todo>>]_vars

\* an element was skipped in the middle of a line inside a link
C9_Witness ==
    /\ last = "skip"
    /\ renderer.current_line # <<>>
    /\ renderer.active_link_url # None
    /\ stack # <<>>

\* C10: entering an li at list depth d >= 1 puts the bullet at the start of a
\* fresh line after exactly 2*(d-1) spaces (checked where the line has room for
\* the bullet and twice the indentation, so that wrapping plays no part).
C10_BulletIndent ==
    (/\ last = "element"
     /\ stack # <<>>
     /\ stack[Len(stack)].tag = "li"
     /\ renderer.list_depth >= 1
     /\ renderer.max_width >= 4 * renderer.list_depth - 2 + Len(Bullet))
        => LineText(renderer.current_line) = Spaces(2 * (renderer.list_depth - 1)) \o Bullet

\* C11: outside a preserve-whitespace region no line starts, at column 0, with
\* the token that is a single space, also when the space between two words
\* arrives on a line that is exactly full and wraps (checked on the line under
\* construction, which a preserve-whitespace text node always flushes, and for
\* max_width >= 1).
C11_NoLeadingSpace ==
    (/\ ~renderer.preserve_whitespace
     /\ renderer.max_width >= 1
     /\ renderer.current_line # <<>>)
        => renderer.current_line[1].content # <<" ">>

\* extract_text was called on the selection of the tab, and what it returned
ExtractCalled == key.code = "extract_text"
Extracted == clipboard[1]

\* the characters [s, e) of a line, counted in characters
CharsBetween(line, s, e) == SubSeq(line, s + 1, e)

\* C12: for a selection within one line with 0 <= s_char <= e_char <= number
\* of characters of the line, extract_text returns exactly the characters
\* [s_char, e_char) of the line, whatever their byte lengths; an empty range
\* gives the empty string.
C12_SelectionExact ==
    ExtractCalled =>
        LET sel == tab.selection[1] IN
        (/\ sel.start_line = sel.end_line
         /\ sel.start_line < Len(tab.rendered_content)
         /\ sel.start_char <= sel.end_char
         /\ sel.end_char <= Len(tab.rendered_content[sel.start_line + 1]))
            => Extracted = CharsBetween(tab.rendered_content[sel.start_line + 1],
                                        sel.start_char, sel.end_char)

Min(a, b) == IF a <= b THEN a ELSE b

IsPrefix(p, s) == Len(p) <= Len(s) /\ SubSeq(s, 1, Len(p)) = p

\* the endpoints of the selection of the tab, in (line, char) order
Ordered ==
    LET sel == tab.selection[1] IN
    IF \/ sel.start_line < sel.end_line
       \/ sel.start_line = sel.end_line /\ sel.start_char <= sel.end_char
    THEN sel
    ELSE Selection(sel.end_line, sel.end_char, sel.start_line, sel.start_char)

\* C13: a char index past the end of a line clamps to the end of the line: the
\* fragment of the first line of the (ordered) selection is empty when the
\* start index is at or past the end of that line, not the whole line, and an
\* end index past the end extracts up to the end of the line.
C13_ClampToLineEnd ==
    (ExtractCalled /\ Ordered.start_line < Len(tab.rendered_content)) =>
        LET line == tab.rendered_content[Ordered.start_line + 1]
            from == Min(Ordered.start_char, Len(line))
        IN  IF Ordered.start_line = Ordered.end_line
            THEN Extracted = CharsBetween(line, from, Min(Ordered.end_char, Len(line)))
            ELSE IsPrefix(CharsBetween(line, from, Len(line)) \o <<"\n">>, Extracted)

\* the selection of the tab with anchor and cursor swapped
Swapped ==
    LET sel == tab.selection[1] IN
    Selection(sel.end_line, sel.end_char, sel.start_line, sel.start_char)

\* (line, char) pairs in lexicographic order
LexLeq(l1, c1, l2, c2) == IF l1 = l2 THEN c1 <= c2 ELSE l1 < l2

\* C14: extract_text returns the same text for a selection and for the selection
\* with anchor and cursor swapped, for every pair of endpoints; the endpoints it
\* works on are ordered lexicographically by (line, char).
C14_SwapInvariant ==
    ExtractCalled =>
        /\ Extracted = extract_text(Swapped, tab.rendered_content)
        /\ Extracted # Panic
        /\ LET n == normalize(tab.selection[1]) IN
               /\ LexLeq(n.start_line, n.start_char, n.end_line, n.end_char)
               /\ n \in {tab.selection[1], Swapped}

\* extract_text was called with the cursor before the anchor, on one line and
\* across lines, and returned text
C14_Witness ==
    /\ ExtractCalled
    /\ tab.selection[1] = Selection(1, 1, 0, 1)
    /\ Extracted = <<"W", "\n", "a">>

NewlineCount(s) == Cardinality({i \in 1..Len(s) : s[i] = "\n"})

\* the lines of the buffer the (ordered) selection covers
ExtractedLines ==
    {i \in Ordered.start_line..Ordered.end_line : i < Len(tab.rendered_content)}

\* C15: the text of a selection over several lines is the fragments of the
\* lines joined by exactly one newline between consecutive extracted lines, and
\* the join adds no newline at the end, for every selection, also one whose end
\* line is past the last line of the buffer (no line of the buffer holds a
\* newline, so the newlines of the text are those of the join: one less than
\* the lines extracted).
C15_JoinedByNewlines ==
    (ExtractCalled /\ ExtractedLines # {}) =>
        NewlineCount(Extracted) = Cardinality(ExtractedLines) - 1

\* perform_search was called on a query, and the matches it left in the tab
SearchCalled == key.code = "perform_search"
Matches(t) == IF t.search_state = <<>> THEN <<>> ELSE t.search_state[1].matches

\* the query occurs in the line at character p
OccursAt(line, query, p) ==
    p + Len(query) <= Len(line) /\ SubSeq(line, p + 1, p + Len(query)) = query

\* the matches ms are those of a greedy scan for the query, line by line and
\* from left to right
GreedyMatches(ms, rendered_content, query) ==
    /\ \A k \in 1..Len(ms) :
          /\ ms[k].line_index < Len(rendered_content)
          /\ ms[k].end_char = ms[k].start_char + Len(query)
          /\ ms[k].end_char <= Len(rendered_content[ms[k].line_index + 1])
          /\ OccursAt(rendered_content[ms[k].line_index + 1], query, ms[k].start_char)
    /\ \A j, k \in 1..Len(ms) :
          j < k => /\ LexLeq(ms[j].line_index, ms[j].start_char + 1,
                             ms[k].line_index, ms[k].start_char)
                   /\ ms[j].line_index = ms[k].line_index => ms[j].end_char <= ms[k].start_char
    /\ \A l \in 0..(Len(rendered_content) - 1) :
          \A p \in 0..Len(rendered_content[l + 1]) :
              OccursAt(rendered_content[l + 1], query, p) =>
                  \E k \in 1..Len(ms) :
                      /\ ms[k].line_index = l
                      /\ ms[k].start_char <= p
                      /\ p < ms[k].end_char

\* C16: the matches of a search are found line by line and, in a line, from left
\* to right, each at the first place the query occurs at or after the end of the
\* match before it: they come in increasing (line_index, start_char) order, end
\* at start_char + length of the query <= length of the line, and do not
\* overlap ("aa" in "aaaa" gives [0,2) and [2,4)).
C16_GreedyNonOverlapping ==
    (SearchCalled /\ key.ch # <<>>) =>
        /\ GreedyMatches(Matches(tab), tab.rendered_content, key.ch)
        /\ (tab.rendered_content = <<Repeat(<<"a">>, 4)>> /\ key.ch = <<"a", "a">>)
              => Matches(tab) = <<SearchMatch(0, 0, 2), SearchMatch(0, 2, 4)>>

\* "aa" was searched in "aaaa"
C16_Witness ==
    /\ SearchCalled
    /\ key.ch = <<"a", "a">>
    /\ tab.rendered_content = <<Repeat(<<"a">>, 4)>>
    /\ Len(Matches(tab)) = 2

\* C17: whenever the search state of a tab is present, its matches are not
\* empty and current_match_index is below their number (so with no match the
\* search state is absent), after every key, the key that enters Search mode
\* included.
C17_SearchStateValid ==
    tab.search_state # <<>> =>
        /\ tab.search_state[1].matches # <<>>
        /\ tab.search_state[1].current_match_index < Len(tab.search_state[1].matches)

\* C18: in Search mode every character typed is appended to the query and every
\* Backspace removes its last character, and after the key the matches are those
\* of a full search for that query, for every sequence of keys, also after a
\* prefix of the query had no match.
C18_SearchFollowsQuery ==
    tab.input_mode = "Search" =>
        /\ tab.search_state # <<>> => tab.search_state[1].query = typed
        /\ Matches(tab) = Matches(perform_search(tab, typed))

RECURSIVE NextTimes(_, _)
NextTimes(t, n) == IF n = 0 THEN t ELSE NextTimes(next_search_match(t), n - 1)

RECURSIVE PreviousTimes(_, _)
PreviousTimes(t, n) == IF n = 0 THEN t ELSE PreviousTimes(previous_search_match(t), n - 1)

\* C19: with n >= 1 matches and the current match i, next_search_match goes to
\* (i + 1) mod n and previous_search_match to (i - 1) mod n; each undoes the
\* other and n steps of either come back to i; with no search state, or with no
\* matches, both leave the tab as it is.  The keys '>' and '<' take these steps.
C19_MatchNavigation ==
    /\ [](LET n == Len(Matches(tab)) IN
           IF n >= 1
           THEN LET i == tab.search_state[1].current_match_index IN
                /\ next_search_match(tab) =
                       [tab EXCEPT !.search_state[1].current_match_index = (i + 1) % n]
                /\ previous_search_match(tab) =
                       [tab EXCEPT !.search_state[1].current_match_index = (i + n - 1) % n]
                /\ previous_search_match(next_search_match(tab)) = tab
                /\ next_search_match(previous_search_match(tab)) = tab
                /\ NextTimes(tab, n) = tab
                /\ PreviousTimes(tab, n) = tab
           ELSE next_search_match(tab) = tab /\ previous_search_match(tab) = tab)
    /\ [][(tab.input_mode = "Normal" /\ key' \in {Char(">"), Char("<")}) =>
            LET n == Len(Matches(tab)) IN
            IF n >= 1
            THEN LET i == tab.search_state[1].current_match_index IN
                 /\ tab'.search_state[1].matches = Matches(tab)
                 /\ tab'.search_state[1].current_match_index =
                        IF key' = Char(">") THEN (i + 1) % n ELSE (i + n - 1) % n
            ELSE tab' = tab]_vars

\* '<' went from the first of several matches round to the last
C19_Witness ==
    /\ key = Char("<")
    /\ tab.input_mode = "Normal"
    /\ Len(Matches(tab)) >= 3
    /\ tab.search_state[1].current_match_index = Len(Matches(tab)) - 1
    /\ tab.scroll > 0

\* C20: with n >= 1 link regions and selected_link_index i < n, Tab selects the
\* link (i + 1) mod n and BackTab the link (i - 1) mod n (with 3 links Tab goes
\* from 2 to 0 and BackTab from 0 to 2); with no link region, Tab and BackTab
\* change neither selected_link_index nor scroll.
C20_LinkNavigation ==
    [][(tab.input_mode = "Normal" /\ key'.code \in {"Tab", "BackTab"}) =>
         LET n == Len(tab.link_regions)
             i == tab.selected_link_index
         IN  IF n >= 1
             THEN i < n =>
                    tab'.selected_link_index =
                        IF key'.code = "Tab" THEN (i + 1) % n ELSE (i + n - 1) % n
             ELSE /\ tab'.selected_link_index = i
                  /\ tab'.scroll = tab.scroll]_vars

\* Tab went from the last of three links round to the first and scrolled back
C20_Witness ==
    /\ key.code = "Tab"
    /\ tab.input_mode = "Normal"
    /\ Len(tab.link_regions) = 3
    /\ tab.selected_link_index = 0
    /\ tab.scroll = 0
    /\ typed = <<>>

\* the line a Tab, BackTab, '>' or '<' key handled in Normal mode has focused:
\* <<>> when the key focused nothing
FocusedLine ==
    IF key'.code \in {"Tab", "BackTab"}
    THEN IF tab'.link_regions # <<>> /\ tab'.selected_link_index < Len(tab'.link_regions)
         THEN <<tab'.link_regions[tab'.selected_link_index + 1].line_index>>
         ELSE <<>>
    ELSE IF key' \in {Char(">"), Char("<")}
              /\ Matches(tab') # <<>>
              /\ tab'.search_state[1].current_match_index < Len(Matches(tab'))
         THEN <<Matches(tab')[tab'.search_state[1].current_match_index + 1].line_index>>
         ELSE <<>>

\* C21: after Tab or BackTab has focused a link region, or '>' or '<' a search
\* match, on line L, with viewport height h and scroll s, the scroll is L if
\* L < s, L - h + 1 if L >= s + h, and s otherwise; the subtraction does not
\* underflow, and for h >= 1 the focused line is visible (scroll <= L < scroll + h).
C21_Autoscroll ==
    [][(tab.input_mode = "Normal" /\ FocusedLine # <<>>) =>
         LET L == FocusedLine[1]
             h == SatSub(term_height, UI_HEIGHT_OFFSET)
             s == tab.scroll
         IN  /\ tab'.scroll = IF L < s THEN L ELSE IF L >= s + h THEN L - h + 1 ELSE s
             /\ (L >= s + h) => L - h >= 0
             /\ h >= 1 => (tab'.scroll <= L /\ L < tab'.scroll + h)]_vars

\* Tab focused a link below the viewport: it is now on the last visible row
C21_Witness ==
    /\ key.code = "Tab"
    /\ tab.input_mode = "Normal"
    /\ tab.link_regions # <<>>
    /\ tab.selected_link_index = 2
    /\ SatSub(term_height, UI_HEIGHT_OFFSET) = 2
    /\ tab.scroll = 2

\* C22: whenever the link registry of the tab is not empty, selected_link_index
\* is below its length wherever it indexes the registry (the link highlight of a
\* draw, Tab and BackTab), so no key, network event, resize or draw ends in a
\* panic.
C22_LinkIndexInBounds ==
    /\ tab.input_mode # "Panicked"
    /\ tab.link_regions # <<>> => tab.selected_link_index < Len(tab.link_regions)

SubmitCalled == key.code = "submit_request"

\* the address is taken for a search: it holds a space or no dot
IsSearch(url) == contains(url, <<" ">>) \/ ~contains(url, <<".">>)

\* what a form-encoded string stands for: '+' is a space, %2F a slash and
\* %3A a colon
RECURSIVE FormDecoded(_)
FormDecoded(s) ==
    IF s = <<>> THEN <<>>
    ELSE IF Head(s) = "+" THEN <<" ">> \o FormDecoded(Tail(s))
    ELSE IF starts_with(s, <<"%", "2", "F">>) THEN <<"/">> \o FormDecoded(SubSeq(s, 4, Len(s)))
    ELSE IF starts_with(s, <<"%", "3", "A">>) THEN <<":">> \o FormDecoded(SubSeq(s, 4, Len(s)))
    ELSE <<Head(s)>> \o FormDecoded(Tail(s))

\* the query of a search URL: what follows "...search?query="
QueryOf(url) == SubSeq(url, Len(MARGINALIA_SEARCH_URL) + 7, Len(url))

\* C27: an address that starts with neither http:// nor https:// becomes the
\* Marginalia search URL with the address form-encoded as the query parameter
\* when it holds a space or no dot ("rust programming" gives
\* ...search?query=rust+programming), and otherwise gets the prefix https://
\* (http:// when it ends in .i2p); the result is written back to url_input.
C27_UrlNormalization ==
    (/\ SubmitCalled
     /\ ~starts_with(typed, <<"h", "t", "t", "p", ":", "/", "/">>)
     /\ ~starts_with(typed, <<"h", "t", "t", "p", "s", ":", "/", "/">>)) =>
        /\ IsSearch(typed) =>
              /\ starts_with(tab.url_input, MARGINALIA_SEARCH_URL \o <<"q", "u", "e", "r", "y", "=">>)
              /\ \A i \in 1..Len(QueryOf(tab.url_input)) :
                    QueryOf(tab.url_input)[i] \notin {" ", "/", ":"}
              /\ FormDecoded(QueryOf(tab.url_input)) = typed
        /\ typed = <<"r", "u", "s", "t", " ", "p", "r", "o", "g", "r", "a", "m", "m", "i", "n", "g">> =>
              tab.url_input = 
                  MARGINALIA_SEARCH_URL \o <<"q", "u", "e", "r", "y", "=", "r", "u", "s", "t", "+", "p", "r", "o", "g", "r", "a", "m", "m", "i", "n", "g">>
        /\ (~IsSearch(typed) /\ ends_with(typed, <<".", "i", "2", "p">>)) =>
              tab.url_input = <<"h", "t", "t", "p", ":", "/", "/">> \o typed
        /\ (~IsSearch(typed) /\ ~ends_with(typed, <<".", "i", "2", "p">>)) =>
              tab.url_input = <<"h", "t", "t", "p", "s", ":", "/", "/">> \o typed

\* "rust programming" was submitted and the search URL is in the address bar
C27_Witness ==
    /\ SubmitCalled
    /\ typed = <<"r", "u", "s", "t", " ", "p", "r", "o", "g", "r", "a", "m", "m", "i", "n", "g">>
    /\ tab.url_input = 
                  MARGINALIA_SEARCH_URL \o <<"q", "u", "e", "r", "y", "=", "r", "u", "s", "t", "+", "p", "r", "o", "g", "r", "a", "m", "m", "i", "n", "g">>

\* C23: in Visual mode the keys h, j, k and l never index rendered_content at
\* a line that is not below its length, whatever the buffer (an empty one
\* included) and wherever a click or an earlier layout left cursor_line.
C23_CursorLineInBounds ==
    [][(tab.input_mode = "Visual"
        /\ key' \in {Char("h"), Char("j"), Char("k"), Char("l")}) =>
           \/ visual_cursor(tab, key').indexed = <<>>
           \/ visual_cursor(tab, key').indexed[1] < Len(tab.rendered_content)]_vars

\* the anchor of a selection: the endpoint set on entering Visual mode
Anchor(sel) == <<sel.start_line, sel.start_char>>

\* C28: a running tab has a Selection exactly when its input mode is Visual;
\* entering Visual mode creates it with both endpoints at the cursor, which
\* stays where it was; a step that stays in Visual mode leaves the anchor
\* alone; Esc and 'y' in Visual mode end in Normal mode with no Selection.
C28_SelectionLifetime ==
    /\ [](Running(tab) => (tab.selection # <<>> <=> tab.input_mode = "Visual"))
    /\ [][/\ (tab.input_mode # "Visual" /\ tab'.input_mode = "Visual") =>
              /\ tab'.cursor_line = tab.cursor_line
              /\ tab'.cursor_char = tab.cursor_char
              /\ tab'.selection = <<Selection(tab.cursor_line, tab.cursor_char,
                                              tab.cursor_line, tab.cursor_char)>>
          /\ (tab.input_mode = "Visual" /\ tab'.input_mode = "Visual") =>
              Anchor(tab'.selection[1]) = Anchor(tab.selection[1])
          /\ (tab.input_mode = "Visual" /\ key' \in {Key("Esc", ""), Char("y")}) =>
              /\ tab'.input_mode = "Normal"
              /\ tab'.selection = <<>>]_vars

\* Visual mode was entered at one place and 'j' has moved the end of the
\* selection to another line
C28_Witness ==
    /\ tab.input_mode = "Visual"
    /\ key = Char("j")
    /\ tab.selection # <<>>
    /\ tab.selection[1].end_line # tab.selection[1].start_line
    /\ tab.selection[1].end_line = tab.cursor_line

\* the step lays the tab out anew: a page is delivered, the terminal is
\* resized or the source view is toggled
Relayout ==
    \/ key' = Key("network", "Success")
    \/ key' = Key("network", "Error")
    \/ key' = Key("resize", "")
    \/ key' = Char("V")

\* the match lies in the buffer: its line exists and holds its characters
MatchInside(m, rendered_content) ==
    /\ m.line_index < Len(rendered_content)
    /\ m.start_char <= m.end_char
    /\ m.end_char <= Len(rendered_content[m.line_index + 1])

\* C24: after every layout of a tab (a page delivered, a resize, the source
\* view toggled) every match that search_state still holds lies in the new
\* buffer: its line_index is below the number of lines and its characters are
\* inside that line.
C24_MatchesInsideNewBuffer ==
    [][(Relayout /\ Running(tab')) =>
           \A k \in 1..Len(Matches(tab')) :
               MatchInside(Matches(tab')[k], tab'.rendered_content)]_vars

\* the layout of a page at a terminal width, made anew
FreshLayout(html_source, width) ==
    render(parse_document(html_source), render_tab_content_width(width))

\* App b is App a after the response was handled, as far as the delivery of a
\* page goes
Delivered(a, b, response) ==
    /\ Len(b.tabs) = Len(a.tabs)
    /\ b.active_tab_index = a.active_tab_index
    /\ \A i \in 1..Len(a.tabs) :
          IF a.tabs[i].id # response.id THEN b.tabs[i] = a.tabs[i]
          ELSE IF response.kind \in {"Success", "Error"}
          THEN /\ b.tabs[i].html_source =
                      IF response.kind = "Success" THEN response.html_source
                      ELSE ErrorHtml(response.msg)
               /\ b.tabs[i].scroll = 0
               /\ FreshLayout(b.tabs[i].html_source, term_width) # <<>>
               /\ b.tabs[i].rendered_content =
                      LineTexts(FreshLayout(b.tabs[i].html_source, term_width)[1].lines)
               /\ b.tabs[i].link_regions =
                      FreshLayout(b.tabs[i].html_source, term_width)[1].links
          ELSE /\ b.tabs[i].rendered_content = a.tabs[i].rendered_content
               /\ b.tabs[i].link_regions = a.tabs[i].link_regions
               /\ b.tabs[i].scroll = a.tabs[i].scroll

NormalKeyStep(k) == key' = k /\ current_tab(app).input_mode = "Normal"

\* C26: the App starts with one tab, of index 0 and id 0; whatever tabs are
\* added, opened from a link, closed or switched to, the tab list is not empty
\* and active_tab_index is below its length; add_tab appends one tab and makes
\* it the active one; close_tab on the only tab changes nothing.
C26_TabInvariant ==
    /\ Len(app.tabs) = 1 /\ app.active_tab_index = 0 /\ app.tabs[1].id = 0
    /\ [](app.tabs # <<>> /\ app.active_tab_index < Len(app.tabs))
    /\ [][/\ NormalKeyStep(Char("n")) =>
              /\ Len(app'.tabs) = Len(app.tabs) + 1
              /\ SubSeq(app'.tabs, 1, Len(app.tabs)) = app.tabs
              /\ app'.active_tab_index = Len(app'.tabs) - 1
          /\ (NormalKeyStep(Char("w")) /\ Len(app.tabs) = 1) => app' = app]_vars

\* the second of two tabs, the active one, was closed: the first is active
C26_Witness ==
    /\ key = Char("w")
    /\ Len(app.tabs) = 1
    /\ app.id_counter > 1
    /\ app.active_tab_index = 0

\* the handler of a mode other than Normal, on a tab
ModeHandler(t, k, i2p_mode) ==
    CASE t.input_mode = "Editing" -> handle_editing_mode(t, k, i2p_mode)
      [] t.input_mode = "Visual" -> handle_visual_mode(t, k)
      [] t.input_mode = "Search" -> handle_search_mode(t, k)

\* C29: a key goes to the handler of the mode of the active tab and to no
\* other: in Normal mode 'e' leads to Editing, 'v' to Visual and '/' to Search;
\* in Editing, Visual and Search mode Esc leads back to Normal, the active tab
\* becomes what the handler of its mode makes of the key, and no key changes
\* active_tab_index, the number of tabs or the mode of another tab.
C29_InputModes ==
    [][LET t == current_tab(app) IN
       IF t.input_mode = "Normal"
       THEN /\ key' = Char("e") => current_tab(app').input_mode = "Editing"
            /\ key' = Char("v") => current_tab(app').input_mode = "Visual"
            /\ key' = Char("/") => current_tab(app').input_mode = "Search"
       ELSE /\ key' = Key("Esc", "") => current_tab(app').input_mode = "Normal"
            /\ app'.active_tab_index = app.active_tab_index
            /\ Len(app'.tabs) = Len(app.tabs)
            /\ current_tab(app') = ModeHandler(t, key', app.i2p_mode)
            /\ \A i \in 1..Len(app.tabs) :
                   i # app.active_tab_index + 1 =>
                       app'.tabs[i].input_mode = app.tabs[i].input_mode]_vars

\* Esc has brought the second of two tabs back from Editing mode, where a 'w'
\* was typed into its address
C29_Witness ==
    /\ key = Key("Esc", "")
    /\ Len(app.tabs) = 2
    /\ app.active_tab_index = 1
    /\ current_tab(app).input_mode = "Normal"
    /\ current_tab(app).url_input = Append(StartUrl, "w")

\* the buffer of the tab is the layout of its html_source at the width
LaidOut(t, width) ==
    /\ FreshLayout(t.html_source, width) # <<>>
    /\ t.rendered_content = LineTexts(FreshLayout(t.html_source, width)[1].lines)
    /\ t.link_regions = FreshLayout(t.html_source, width)[1].links

\* C30: resize_all_tabs from one terminal width to another lays every tab out
\* at the new width; a buffer that was the layout of the tab's page at the old
\* width gets no more lines when the terminal grows and no fewer when it
\* shrinks.
C30_ResizeMonotone ==
    [][key' = Key("resize", "") =>
           \A i \in 1..Len(app.tabs) :
               /\ Running(app'.tabs[i])
               /\ app'.tabs[i].html_source = app.tabs[i].html_source
               /\ LaidOut(app'.tabs[i], term_width')
               /\ LaidOut(app.tabs[i], term_width) =>
                      /\ term_width <= term_width' =>
                             Len(app.tabs[i].rendered_content)
                                 >= Len(app'.tabs[i].rendered_content)
                      /\ term_width' <= term_width =>
                             Len(app'.tabs[i].rendered_content)
                                 >= Len(app.tabs[i].rendered_content)]_vars

\* the token push_word was called on, and what is left of it to split
SplitToken == input.events[1].text
SplitRemaining == IF todo = <<>> THEN <<>> ELSE Head(todo).arg

\* a span is a chunk of the token: neither indentation nor the word before it
IsChunk(span) == span.content = <<>> \/ Head(span.content) \in {"a", "W", "z"}

\* the chunks of the spans, in order
RECURSIVE ChunksOf(_)
ChunksOf(spans) ==
    IF spans = <<>> THEN <<>>
    ELSE (IF IsChunk(Head(spans)) THEN <<Head(spans).content>> ELSE <<>>)
         \o ChunksOf(Tail(spans))

RECURSIVE Flatten(_)
Flatten(seqs) == IF seqs = <<>> THEN <<>> ELSE Head(seqs) \o Flatten(Tail(seqs))

\* the chunks emitted so far, over the flushed lines and the current line
EmittedChunks == ChunksOf(Flatten(renderer.lines) \o renderer.current_line)

\* the line holds at most one chunk, and nothing after it
OneChunkAtEnd(line) ==
    \A i \in 1..Len(line) : IsChunk(line[i]) => i = Len(line)

\* C31: while and after a token wider than max_width is hard-split, the chunks
\* emitted so far followed by what remains are the token, character for
\* character; every chunk is non-empty and ends on a character boundary of the
\* token; a flushed line ends with its one chunk, and while characters remain
\* the last chunk has been flushed.
C31_HardSplitPreservesToken ==
    (pc = "walk" /\ StrWidth(SplitToken) > renderer.max_width) =>
        /\ Flatten(EmittedChunks) \o SplitRemaining = SplitToken
        /\ \A k \in 1..Len(EmittedChunks) :
              /\ EmittedChunks[k] # <<>>
              /\ IsCharBoundary(SplitToken,
                                str_len(Flatten(SubSeq(EmittedChunks, 1, k))))
        /\ \A l \in 1..Len(renderer.lines) : OneChunkAtEnd(renderer.lines[l])
        /\ OneChunkAtEnd(renderer.current_line)
        /\ SplitRemaining # <<>> => ChunksOf(renderer.current_line) = <<>>

\* the token "aWa" was split into three chunks at max_width 1, the wide
\* character forced through on a line of its own
C31_Witness ==
    /\ pc = "walk"
    /\ last = "hard_wrap"
    /\ SplitToken = <<"a", "W", "a">>
    /\ renderer.max_width = 1
    /\ SplitRemaining = <<>>
    /\ EmittedChunks = << <<"a">>, <<"W">>, <<"a">> >>

\* lines[from .. to] of the buffer, line by line
RECURSIVE LinesFrom(_, _, _)
LinesFrom(lines, from, to) ==
    IF from >= to THEN <<>> ELSE <<lines[from + 1]>> \o LinesFrom(lines, from + 1, to)

\* C32: wherever Down and the wheel have left the scroll offset, the tab runs
\* and for every height of the content area the viewport is
\* lines[scroll .. min(scroll + height, total_lines)] when scroll < total_lines
\* and empty otherwise: no draw slices the buffer out of bounds.
C32_ViewportSlice ==
    /\ Running(tab)
    /\ \A height \in 0..MaxViewport :
          viewport_content(tab, height) =
              IF tab.scroll < Len(tab.rendered_content)
              THEN LinesFrom(tab.rendered_content, tab.scroll,
                             Min(tab.scroll + height, Len(tab.rendered_content)))
              ELSE <<>>

\* a tab of three lines was scrolled past its last line and drawn
C32_Witness ==
    /\ key = Key("draw", "")
    /\ Len(tab.rendered_content) = 3
    /\ tab.scroll > Len(tab.rendered_content)
    /\ Running(tab)

\* the tab after one more layout at the width of the terminal
LaidOutAgain == render_tab(tab, term_width)

AllHandled ==
    /\ channel = <<>>
    /\ history = <<>>
    /\ \A i \in 1..Len(tasks) : tasks[i].pc = "done"

\* the page a terminal message puts into the tab
HtmlOf(response) ==
    IF response.kind = "Success" THEN response.html_source ELSE ErrorHtml(response.msg)

\* the message a task sent last
LastSent(task) == task.sent[Len(task.sent)]

\* C34: when several requests were submitted for the tab and all their
\* responses have been handled, the tab holds the page of the request that was
\* submitted last, in whatever order the tasks sent their responses.
C34_LatestRequestWins ==
    (AllHandled /\ Len(tasks) >= 2 /\ AppRunning(app)) =>
        LET t == current_tab(app)
            latest == LastSent(tasks[Len(tasks)])
        IN  /\ t.html_source = HtmlOf(latest)
            /\ LaidOut(t, term_width)

Terminal(response) == response.kind \in {"Success", "Error"}

\* C35: every task sends Loading(id) first; once it has finished, on whatever
\* path (transport error, oversized page, unreadable body, success, jump
\* fallback), it has sent exactly one terminal message (Success or Error), and
\* that message is its last; before it has finished it has sent none. Every
\* message between Loading and the terminal message is an Info, and all
\* messages carry the id of the task.
C35_RequestProtocol ==
    \A i \in 1..Len(tasks) :
        LET task == tasks[i]
            sent == task.sent
        IN  /\ (sent = <<>>) <=> (task.pc = "spawned")
            /\ sent # <<>> => sent[1].kind = "Loading"
            /\ \A k \in 1..Len(sent) : sent[k].id = task.id
            /\ \A k \in 2..Len(sent) :
                  IF k = Len(sent) /\ task.pc = "done" THEN Terminal(sent[k])
                  ELSE sent[k].kind = "Info"
            /\ task.pc = "done" => Len(sent) >= 2

\* a task met a 503, asked the jump services, and ended with the one Success
\* after its Info messages; all of it was received
C35_Witness ==
    /\ channel = <<>>
    /\ history = <<>>
    /\ \E i \in 1..Len(tasks) :
          /\ tasks[i].pc = "done"
          /\ Len(tasks[i].sent) >= 4
          /\ tasks[i].sent[2].kind = "Info"
          /\ LastSent(tasks[i]).kind = "Success"
    /\ \E i \in 1..Len(tasks) :
          /\ tasks[i].pc = "done"
          /\ LastSent(tasks[i]).msg = "Page too large"

\* the ids of the tabs of an App
TabIds(a) == {a.tabs[i].id : i \in 1..Len(a.tabs)}

\* the ids given out so far whose tab was closed
ClosedIds(a) == (0..(a.id_counter - 1)) \ TabIds(a)

\* C36: in every reachable state the ids of the tabs are pairwise distinct and
\* below id_counter, and a response for the id of a closed tab changes nothing
\* in the App; in every step id_counter does not decrease and a tab that is new
\* carries an id that was never given out before, so the id of a closed tab is
\* not used again.
C36_TabIdsNeverReused ==
    /\ [](/\ \A i, j \in 1..Len(app.tabs) :
                app.tabs[i].id = app.tabs[j].id => i = j
          /\ \A id \in TabIds(app) : id < app.id_counter
          /\ AppRunning(app) =>
                \A id \in ClosedIds(app) : \A response \in AppResponses(id) :
                    handle_network_event(app, response, term_width) = app)
    /\ [][/\ app'.id_counter >= app.id_counter
          /\ \A id \in TabIds(app') \ TabIds(app) : id >= app.id_counter]_vars

\* the tab of id 0 was closed, a tab was opened after that and got id 2, and a
\* response has been handled since
C36_Witness ==
    /\ key.code = "network"
    /\ Len(app.tabs) = 2
    /\ app.tabs[1].id = 1
    /\ app.tabs[2].id = 2
    /\ app.id_counter = 3
    /\ 0 \in ClosedIds(app)

\* the step is a navigation: Enter on a link, a click on a link, or Enter in
\* Editing mode
Navigation ==
    \/ key' = Key("Enter", "") /\ tab.input_mode = "Editing"
    \/ key' = Key("Enter", "") /\ tab.input_mode = "Normal"
           /\ tab.selected_link_index < Len(tab.link_regions)
    \/ key' = Key("click", "link")

\* C37: every navigation pushes the address of the page that was shown before
\* it (the address requested last) onto the history; Backspace or Left with a
\* history pops its last entry, writes it to url_input and requests it, and
\* with an empty history changes neither the tab nor the history.
C37_HistoryRecordsPageLeft ==
    [][/\ Navigation => history' = Append(history, typed)
       /\ key'.code \in {"Backspace", "Left"} =>
              IF history = <<>> THEN tab' = tab /\ history' = history
              ELSE /\ history' = SubSeq(history, 1, Len(history) - 1)
                   /\ typed' = tab'.url_input
                   /\ tab'.url_input =
                          enforce_https(normalize_url(history[Len(history)]), FALSE)]_vars

\* the region lies on a line that exists, within the columns of that line (the
\* line being filled counts with what it holds so far)
RegionOnLine(r, region) ==
    IF region.line_index < Len(r.lines)
    THEN region.x_end <= StrWidth(LineText(r.lines[region.line_index + 1]))
    ELSE /\ region.line_index = Len(r.lines)
         /\ r.current_line # <<>>
         /\ region.x_end <= r.current_line_width

\* the regions of b that a does not hold as they are
ChangedRegions(a, b) ==
    {b.links[i] : i \in {j \in 1..Len(b.links) : j > Len(a.links) \/ b.links[j] # a.links[j]}}

\* C38: at every point of a layout each region lies on a line that exists and
\* within the columns of that line, and after render its line_index is below
\* the number of lines; a step that adds or extends a region runs under an
\* active link of the region's URL and adds columns only at the region's end,
\* so the columns of a region were emitted while its URL was the active link.
C38_LinkRegionsInsideLines ==
    /\ [](/\ \A i \in 1..Len(renderer.links) :
                /\ renderer.links[i].x_start <= renderer.links[i].x_end
                /\ RegionOnLine(renderer, renderer.links[i])
          /\ RenderDone =>
                \A i \in 1..Len(renderer.links) :
                    renderer.links[i].line_index < Len(renderer.lines))
    /\ [][/\ Len(renderer'.links) >= Len(renderer.links)
          /\ \A i \in 1..Len(renderer.links) :
                /\ renderer'.links[i].url = renderer.links[i].url
                /\ renderer'.links[i].line_index = renderer.links[i].line_index
                /\ renderer'.links[i].x_start = renderer.links[i].x_start
                /\ renderer'.links[i].x_end >= renderer.links[i].x_end
          /\ \A region \in ChangedRegions(renderer, renderer') :
                /\ renderer.active_link_url # None
                /\ renderer'.active_link_url = renderer.active_link_url
                /\ region.url = renderer.active_link_url]_vars

\* render is over with two regions on different lines, the second of them
\* ending where its line ends
C38_Witness ==
    /\ RenderDone
    /\ Len(renderer.links) >= 2
    /\ renderer.links[1].line_index < renderer.links[2].line_index
    /\ renderer.links[2].x_end =
           StrWidth(LineText(renderer.lines[renderer.links[2].line_index + 1]))
    /\ renderer.links[2].x_end > 0

\* the services that answer 200 OK
Answering(outcomes) == {n \in 1..Len(JUMP_SERVICES) : outcomes[n] = "OK"}

\* C39: attempt_jump contacts the services in their listed order; when some
\* service answers 200 OK it returns the response of the first such service,
\* having contacted the services before it and none after; otherwise it
\* returns an error after it has contacted every service, reachable or not,
\* and the error is "All jump services failed." when every service answered
\* with another status.
C39_JumpTriesEveryService ==
    \A i \in 1..Len(tasks) :
        LET call == tasks[i] IN
        call.pc = "jumped" =>
            /\ \A k \in 1..Len(call.contacted) : call.contacted[k] = k
            /\ IF Answering(call.outcomes) # {}
               THEN /\ call.resp_result = "Ok"
                    /\ call.service = CHOOSE n \in Answering(call.outcomes) :
                                          \A m \in Answering(call.outcomes) : n <= m
                    /\ Len(call.contacted) = call.service
               ELSE /\ call.resp_result = "Err"
                    /\ Len(call.contacted) = Len(JUMP_SERVICES)
                    /\ (\A n \in 1..Len(JUMP_SERVICES) : call.outcomes[n] = "NOT_FOUND")
                           => call.error = "All jump services failed."

UI_BORDER_WIDTH == 2

\* C40: for a terminal of width W (at least the border width) the renderer
\* that render_tab sets up wraps at max_width = W - UI_BORDER_WIDTH: the border
\* is taken off once.
C40_BorderReducedOnce ==
    term_width >= UI_BORDER_WIDTH => renderer.max_width = term_width - UI_BORDER_WIDTH

====
